---- MODULE Spec2Model ----
(***************************************************************************)
(* A model of prisma-flat-graphql-generator's generate() (src/cli/         *)
(* generate.ts): the per-model tasks that seed usedInputTypes, the join,   *)
(* and getInputTypes, the bounded fixed-point loop that emits the input    *)
(* types and enums reachable from the seeds.                               *)
(***************************************************************************)
EXTENDS Integers, Sequences, FiniteSets, TLC

VARIABLES
    scenario,            \* which DMMF document generate() is called with
    options,             \* the GraphqlGeneratorOptions of the run
    pc,                  \* position of generate(): map, join, formatModels, resolve, enums, done, error
    mapIndex,            \* next element models.map visits (1-based)
    task,                \* per model: state of its generateModelResolversAndTypeDef promise
    usedInputTypes,      \* the shared Set<string> of generate()
    remainingInputTypes, \* getInputTypes: the set handed to the next round
    index,               \* getInputTypes: rounds completed
    remainingCount,      \* getInputTypes: difference.length of the last round
    writtenTypes,        \* getInputTypes: names already written to fileContent
    fileContent,         \* getInputTypes: emitted blocks, in order
    error,               \* the Error generate() rejected with, if any
    output,              \* the GenerateOutput generate() returned
    sink,                \* the files writeGenerateOutput has written: {dir, file}
    served,              \* the generated resolvers module a server has loaded
    request,             \* the resolver invoked, with its args and info
    prismaSelect,        \* the handler's const prismaSelect
    calls,               \* the Prisma client calls the handler has issued
    frames               \* the calls of one function that are under way: their
                         \* arguments, where they stand, what they returned

vars == <<scenario, options, pc, mapIndex, task, usedInputTypes, remainingInputTypes,
          index, remainingCount, writtenTypes, fileContent, error, output, sink,
          served, request, prismaSelect, calls, frames>>

\* the state of a server that runs the generated resolvers
serveVars == <<served, request, prismaSelect, calls, frames>>

-----------------------------------------------------------------------------
(* Bounds of the catalogues *)

\* number of input types of the "chain" catalogue (N1 -> N2 -> ... -> N<ChainLen>)
ChainLen == 8
\* number of input types of the "ring" catalogue (R1 -> ... -> R<RingLen> -> R1)
RingLen == 4

-----------------------------------------------------------------------------
(* Helpers on sequences *)

ToSet(s) == {s[i] : i \in 1..Len(s)}

\* Array.prototype.includes
Includes(s, x) == \E i \in 1..Len(s) : s[i] = x

\* F(v), with v evaluated once
With(v, F(_)) == CHOOSE r \in {F(x) : x \in {v}} : TRUE

\* Array.prototype.filter, keeping order
RECURSIVE FilterSeq(_, _, _)
FilterSeq(s, Keep(_), i) ==
    IF i > Len(s) THEN <<>>
    ELSE IF Keep(s[i]) THEN <<s[i]>> \o FilterSeq(s, Keep, i + 1)
    ELSE FilterSeq(s, Keep, i + 1)

-----------------------------------------------------------------------------
(* The DMMF document: constructors *)

Scalar(t)     == [type |-> t, location |-> "scalar", isList |-> FALSE]
ScalarList(t) == [type |-> t, location |-> "scalar", isList |-> TRUE]
Obj(t)        == [type |-> t, location |-> "inputObjectTypes", isList |-> FALSE]
ObjList(t)    == [type |-> t, location |-> "inputObjectTypes", isList |-> TRUE]
EnumRef(t)    == [type |-> t, location |-> "enumTypes", isList |-> FALSE]
EnumList(t)   == [type |-> t, location |-> "enumTypes", isList |-> TRUE]
FieldRef(t)   == [type |-> t, location |-> "fieldRefTypes", isList |-> FALSE]

\* DMMF.SchemaArg
Arg(n, req, its) == [name |-> n, isRequired |-> req, inputTypes |-> its]
\* DMMF.InputType
InputType(n, fs) == [name |-> n, fields |-> fs]
\* DMMF.SchemaField of a model output type: name, args, outputType, isNullable
TypedField(n, as, t, l, nullable) ==
    [name |-> n, args |-> as, outputType |-> [type |-> t, isList |-> l],
     isNullable |-> nullable]
\* a required Int field without arguments
OutField(n, as) == TypedField(n, as, "Int", FALSE, FALSE)
\* DMMF.Field of a datamodel model: name, kind, type, isList
DmField(n, k, t, l) == [name |-> n, kind |-> k, type |-> t, isList |-> l]
\* DMMF.Model
DmModel(n, fs) == [name |-> n, fields |-> fs]
\* a field of the Query type: its name is `${query}${model}`
QueryField(q, m, as) == [query |-> q, model |-> m, args |-> as]
\* enum in the Prisma 5 wire shape (values: string[])
EnumValues(n, vs) == [name |-> n, hasData |-> FALSE, values |-> vs, data |-> <<>>]
\* enum in the Prisma 7 wire shape (data: {key, value}[])
EnumData(n, vs) ==
    [name |-> n, hasData |-> TRUE, values |-> <<>>,
     data |-> [i \in 1..Len(vs) |-> [key |-> vs[i], value |-> vs[i]]]]

\* the argument list Prisma declares for findFirst/findMany of a model and
\* for a list relation field
FindArgs(m) ==
    << Arg("where", FALSE, <<Obj(m \o "WhereInput")>>),
       Arg("orderBy", FALSE, <<ObjList(m \o "OrderByInput"), Obj(m \o "OrderByInput")>>),
       Arg("cursor", FALSE, <<Obj(m \o "WhereUniqueInput")>>),
       Arg("take", FALSE, <<Scalar("Int")>>),
       Arg("skip", FALSE, <<Scalar("Int")>>),
       Arg("distinct", FALSE, <<EnumRef(m \o "ScalarFieldEnum"), EnumList(m \o "ScalarFieldEnum")>>) >>

IntFilterTypes ==
    << InputType("IntFilter",
         << Arg("equals", FALSE, <<Scalar("Int"), FieldRef("IntFieldRefInput")>>),
            Arg("in", FALSE, <<ScalarList("Int"), FieldRef("ListIntFieldRefInput")>>),
            Arg("not", FALSE, <<Scalar("Int"), Obj("NestedIntFilter")>>) >>),
       InputType("NestedIntFilter",
         << Arg("equals", FALSE, <<Scalar("Int"), FieldRef("IntFieldRefInput")>>),
            Arg("not", FALSE, <<Scalar("Int"), Obj("NestedIntFilter")>>) >>) >>

-----------------------------------------------------------------------------
(* The DMMF documents the runs are given *)

\* User and Post of the test schema: compound ids on tenantId, a relation in
\* both directions, a user-defined enum
BlogSchema ==
    [ models |-> <<"User", "Post">>,
      datamodel |->
        << DmModel("User",
             << DmField("tenantId", "scalar", "Int", FALSE),
                DmField("id", "scalar", "Int", FALSE),
                DmField("email", "scalar", "String", FALSE),
                DmField("role", "enum", "Role", FALSE),
                DmField("posts", "object", "Post", TRUE) >>),
           DmModel("Post",
             << DmField("tenantId", "scalar", "Int", FALSE),
                DmField("id", "scalar", "Int", FALSE),
                DmField("title", "scalar", "String", FALSE),
                DmField("author", "object", "User", FALSE) >>) >>,
      outputModel |->
        << [name |-> "User", fields |->
              << OutField("tenantId", <<>>), OutField("id", <<>>),
                 TypedField("email", <<>>, "String", FALSE, FALSE),
                 TypedField("role", <<>>, "Role", FALSE, FALSE),
                 TypedField("posts", FindArgs("Post"), "Post", TRUE, FALSE),
                 TypedField("_count", <<>>, "UserCountOutputType", FALSE, FALSE) >>],
           [name |-> "Post", fields |->
              << OutField("tenantId", <<>>), OutField("id", <<>>),
                 TypedField("title", <<>>, "String", FALSE, FALSE),
                 TypedField("author", <<Arg("where", FALSE, <<Obj("UserWhereInput")>>)>>,
                            "User", FALSE, TRUE) >>] >>,
      queryFields |->
        << QueryField("findFirst", "User", FindArgs("User")),
           QueryField("findMany", "User", FindArgs("User")),
           QueryField("findFirst", "Post", FindArgs("Post")),
           QueryField("findMany", "Post", FindArgs("Post")) >>,
      inputPrisma |->
        << InputType("UserWhereInput",
             << Arg("AND", FALSE, <<Obj("UserWhereInput"), ObjList("UserWhereInput")>>),
                Arg("tenantId", FALSE, <<Obj("IntFilter"), Scalar("Int")>>),
                Arg("id", FALSE, <<Obj("IntFilter"), Scalar("Int")>>),
                Arg("role", FALSE, <<Obj("EnumRoleFilter"), EnumRef("Role")>>),
                Arg("posts", FALSE, <<Obj("PostListRelationFilter")>>) >>),
           InputType("UserOrderByInput",
             << Arg("tenantId", FALSE, <<EnumRef("SortOrder")>>),
                Arg("id", FALSE, <<EnumRef("SortOrder")>>) >>),
           InputType("UserWhereUniqueInput",
             << Arg("tenantId_id", FALSE, <<Obj("UserTenantIdIdCompoundUniqueInput")>>),
                Arg("email", FALSE, <<Scalar("String")>>) >>),
           InputType("UserTenantIdIdCompoundUniqueInput",
             << Arg("tenantId", TRUE, <<Scalar("Int")>>),
                Arg("id", TRUE, <<Scalar("Int")>>) >>),
           InputType("UserUpdateManyMutationInput", <<>>),
           InputType("PostListRelationFilter",
             << Arg("every", FALSE, <<Obj("PostWhereInput")>>),
                Arg("some", FALSE, <<Obj("PostWhereInput")>>),
                Arg("none", FALSE, <<Obj("PostWhereInput")>>) >>),
           InputType("PostWhereInput",
             << Arg("tenantId", FALSE, <<Obj("IntFilter"), Scalar("Int")>>),
                Arg("id", FALSE, <<Obj("IntFilter"), Scalar("Int")>>),
                Arg("title", FALSE, <<Obj("StringFilter"), Scalar("String")>>),
                Arg("author", FALSE, <<Obj("UserWhereInput")>>) >>),
           InputType("PostOrderByInput",
             << Arg("tenantId", FALSE, <<EnumRef("SortOrder")>>),
                Arg("title", FALSE, <<EnumRef("SortOrder")>>),
                Arg("author", FALSE, <<Obj("UserOrderByInput")>>) >>),
           InputType("PostWhereUniqueInput",
             << Arg("tenantId_id", FALSE, <<Obj("PostTenantIdIdCompoundUniqueInput")>>) >>),
           InputType("PostTenantIdIdCompoundUniqueInput",
             << Arg("tenantId", TRUE, <<Scalar("Int")>>),
                Arg("id", TRUE, <<Scalar("Int")>>) >>),
           InputType("EnumRoleFilter",
             << Arg("equals", FALSE, <<EnumRef("Role"), FieldRef("EnumRoleFieldRefInput")>>),
                Arg("in", FALSE, <<EnumList("Role"), FieldRef("ListEnumRoleFieldRefInput")>>) >>),
           InputType("StringFilter",
             << Arg("equals", FALSE, <<Scalar("String"), FieldRef("StringFieldRefInput")>>),
                Arg("mode", FALSE, <<EnumRef("QueryMode")>>) >>) >>
        \o IntFilterTypes,
      inputModel |-> <<>>,
      enumPrisma |->
        << EnumValues("SortOrder", <<"asc", "desc">>),
           EnumValues("QueryMode", <<"default", "insensitive">>),
           EnumValues("UserScalarFieldEnum", <<"tenantId", "id", "email", "role">>),
           EnumData("PostScalarFieldEnum", <<"tenantId", "id", "title">>),
           EnumValues("TransactionIsolationLevel", <<"Serializable">>) >>,
      enumModel |-> << EnumData("Role", <<"ADMIN", "USER">>) >> ]

ChainName(i) == "N" \o ToString(i)
ChainModel(i) == "M" \o ToString(i)

\* ChainLen input types, each referring to the next; model M<i> filters by N<i>
ChainSchema ==
    [ models |-> [i \in 1..ChainLen |-> ChainModel(i)],
      datamodel |->
        [i \in 1..ChainLen |->
            DmModel(ChainModel(i), <<DmField("id", "scalar", "Int", FALSE)>>)],
      outputModel |->
        [i \in 1..ChainLen |-> [name |-> ChainModel(i), fields |-> <<OutField("id", <<>>)>>]],
      queryFields |->
        [i \in 1..ChainLen |->
            QueryField("findMany", ChainModel(i),
                       <<Arg("where", FALSE, <<Obj(ChainName(i))>>)>>)],
      inputPrisma |->
        [i \in 1..ChainLen |->
            InputType(ChainName(i),
                IF i < ChainLen
                THEN << Arg("id", FALSE, <<Obj("IntFilter"), Scalar("Int")>>),
                        Arg("next", FALSE, <<Obj(ChainName(i + 1))>>) >>
                ELSE << Arg("id", FALSE, <<Obj("IntFilter"), Scalar("Int")>>) >>)]
        \o IntFilterTypes,
      inputModel |-> <<>>,
      enumPrisma |-> <<>>,
      enumModel |-> <<>> ]

RingName(i) == "R" \o ToString(i)

\* RingLen input types in one cycle, each also referring two steps ahead
RingSchema ==
    [ models |-> <<"Ring">>,
      datamodel |-> << DmModel("Ring", <<DmField("id", "scalar", "Int", FALSE)>>) >>,
      outputModel |-> << [name |-> "Ring", fields |-> <<OutField("id", <<>>)>>] >>,
      queryFields |->
        << QueryField("findFirst", "Ring", <<Arg("where", FALSE, <<Obj(RingName(1))>>)>>),
           QueryField("findMany", "Ring", <<Arg("where", FALSE, <<Obj(RingName(1))>>)>>) >>,
      inputPrisma |->
        [i \in 1..RingLen |->
            InputType(RingName(i),
                << Arg("tenantId", FALSE, <<Scalar("Int")>>),
                   Arg("next", FALSE, <<Obj(RingName((i % RingLen) + 1))>>),
                   Arg("skip", FALSE, <<Obj(RingName(((i + 1) % RingLen) + 1))>>),
                   Arg("order", FALSE, <<EnumRef("SortOrder")>>) >>)],
      inputModel |-> <<>>,
      enumPrisma |-> << EnumValues("SortOrder", <<"asc", "desc">>) >>,
      enumModel |-> <<>> ]

\* an input type of the model namespace (a composite type's filter) that has
\* a required field
ShopSchema ==
    [ models |-> <<"Shop">>,
      datamodel |-> << DmModel("Shop", <<DmField("id", "scalar", "Int", FALSE)>>) >>,
      outputModel |-> << [name |-> "Shop", fields |-> <<OutField("id", <<>>)>>] >>,
      queryFields |->
        << QueryField("findFirst", "Shop", <<Arg("where", FALSE, <<Obj("ShopWhereInput")>>)>>),
           QueryField("findMany", "Shop", <<Arg("where", FALSE, <<Obj("ShopWhereInput")>>)>>) >>,
      inputPrisma |->
        << InputType("ShopWhereInput",
             << Arg("id", FALSE, <<Obj("IntFilter"), Scalar("Int")>>),
                Arg("address", FALSE, <<Obj("AddressObjectEqualityInput")>>),
                Arg("owner", FALSE, <<Obj("OwnerObjectEqualityInput")>>) >>),
           InputType("OwnerObjectEqualityInput",
             << Arg("tenantId", TRUE, <<Scalar("Int")>>),
                Arg("email", FALSE, <<Scalar("String")>>) >>) >>
        \o IntFilterTypes,
      inputModel |->
        << InputType("AddressObjectEqualityInput",
             << Arg("tenantId", TRUE, <<Scalar("Int")>>),
                Arg("city", FALSE, <<Scalar("String")>>) >>) >>,
      enumPrisma |-> <<>>,
      enumModel |-> <<>> ]

\* the filter, order and unique-filter input types Prisma declares for a model
\* with a compound id on (tenantId, id), given its other fields
TenantScopedInputs(m, whereExtra, orderExtra) ==
    << InputType(m \o "WhereInput",
         << Arg("AND", FALSE, <<Obj(m \o "WhereInput"), ObjList(m \o "WhereInput")>>),
            Arg("tenantId", FALSE, <<Obj("IntFilter"), Scalar("Int")>>),
            Arg("id", FALSE, <<Obj("IntFilter"), Scalar("Int")>>) >> \o whereExtra),
       InputType(m \o "OrderByInput",
         << Arg("tenantId", FALSE, <<EnumRef("SortOrder")>>),
            Arg("id", FALSE, <<EnumRef("SortOrder")>>) >> \o orderExtra),
       InputType(m \o "WhereUniqueInput",
         << Arg("tenantId_id", FALSE, <<Obj(m \o "TenantIdIdCompoundUniqueInput")>>),
            Arg("AND", FALSE, <<Obj(m \o "WhereInput"), ObjList(m \o "WhereInput")>>),
            Arg("tenantId", FALSE, <<Obj("IntFilter"), Scalar("Int")>>) >> \o whereExtra),
       InputType(m \o "TenantIdIdCompoundUniqueInput",
         << Arg("tenantId", TRUE, <<Scalar("Int")>>),
            Arg("id", TRUE, <<Scalar("Int")>>) >>),
       InputType(m \o "ListRelationFilter",
         << Arg("every", FALSE, <<Obj(m \o "WhereInput")>>),
            Arg("some", FALSE, <<Obj(m \o "WhereInput")>>),
            Arg("none", FALSE, <<Obj(m \o "WhereInput")>>) >>) >>

\* the filter argument of a required relation to Tenant
TenantRelationArg ==
    Arg("tenant", FALSE, <<Obj("TenantScalarRelationFilter"), Obj("TenantWhereInput")>>)

\* Tenant, User and Post of the test schema: User belongs to Tenant, Post
\* belongs to User and to Tenant
TenantSchema ==
    [ models |-> <<"Tenant", "User", "Post">>,
      datamodel |->
        << DmModel("Tenant",
             << DmField("id", "scalar", "Int", FALSE),
                DmField("name", "scalar", "String", FALSE),
                DmField("User", "object", "User", TRUE),
                DmField("Post", "object", "Post", TRUE) >>),
           DmModel("User",
             << DmField("tenantId", "scalar", "Int", FALSE),
                DmField("id", "scalar", "Int", FALSE),
                DmField("email", "scalar", "String", FALSE),
                DmField("posts", "object", "Post", TRUE),
                DmField("tenant", "object", "Tenant", FALSE) >>),
           DmModel("Post",
             << DmField("tenantId", "scalar", "Int", FALSE),
                DmField("id", "scalar", "Int", FALSE),
                DmField("title", "scalar", "String", FALSE),
                DmField("author", "object", "User", FALSE),
                DmField("tenant", "object", "Tenant", FALSE) >>) >>,
      outputModel |->
        << [name |-> "Tenant", fields |->
              << OutField("id", <<>>),
                 TypedField("name", <<>>, "String", FALSE, FALSE),
                 TypedField("User", FindArgs("User"), "User", TRUE, FALSE),
                 TypedField("Post", FindArgs("Post"), "Post", TRUE, FALSE),
                 TypedField("_count", <<>>, "TenantCountOutputType", FALSE, FALSE) >>],
           [name |-> "User", fields |->
              << OutField("tenantId", <<>>), OutField("id", <<>>),
                 TypedField("email", <<>>, "String", FALSE, FALSE),
                 TypedField("posts", FindArgs("Post"), "Post", TRUE, FALSE),
                 TypedField("tenant", <<>>, "Tenant", FALSE, FALSE),
                 TypedField("_count", <<>>, "UserCountOutputType", FALSE, FALSE) >>],
           [name |-> "Post", fields |->
              << OutField("tenantId", <<>>), OutField("id", <<>>),
                 TypedField("title", <<>>, "String", FALSE, FALSE),
                 TypedField("author", <<Arg("where", FALSE, <<Obj("UserWhereInput")>>)>>,
                            "User", FALSE, TRUE),
                 TypedField("tenant", <<>>, "Tenant", FALSE, FALSE) >>] >>,
      queryFields |->
        << QueryField("findFirst", "Tenant", FindArgs("Tenant")),
           QueryField("findMany", "Tenant", FindArgs("Tenant")),
           QueryField("findFirst", "User", FindArgs("User")),
           QueryField("findMany", "User", FindArgs("User")),
           QueryField("findFirst", "Post", FindArgs("Post")),
           QueryField("findMany", "Post", FindArgs("Post")) >>,
      inputPrisma |->
        << InputType("TenantWhereInput",
             << Arg("id", FALSE, <<Obj("IntFilter"), Scalar("Int")>>),
                Arg("name", FALSE, <<Obj("StringFilter"), Scalar("String")>>),
                Arg("User", FALSE, <<Obj("UserListRelationFilter")>>),
                Arg("Post", FALSE, <<Obj("PostListRelationFilter")>>) >>),
           InputType("TenantOrderByInput",
             << Arg("id", FALSE, <<EnumRef("SortOrder")>>),
                Arg("name", FALSE, <<EnumRef("SortOrder")>>) >>),
           InputType("TenantWhereUniqueInput",
             << Arg("id", FALSE, <<Scalar("Int")>>) >>),
           InputType("TenantScalarRelationFilter",
             << Arg("is", FALSE, <<Obj("TenantWhereInput")>>),
                Arg("isNot", FALSE, <<Obj("TenantWhereInput")>>) >>) >>
        \o TenantScopedInputs("User",
              << Arg("email", FALSE, <<Obj("StringFilter"), Scalar("String")>>),
                 Arg("posts", FALSE, <<Obj("PostListRelationFilter")>>),
                 TenantRelationArg >>,
              << Arg("tenant", FALSE, <<Obj("TenantOrderByInput")>>) >>)
        \o TenantScopedInputs("Post",
              << Arg("title", FALSE, <<Obj("StringFilter"), Scalar("String")>>),
                 Arg("author", FALSE, <<Obj("UserWhereInput")>>),
                 TenantRelationArg >>,
              << Arg("author", FALSE, <<Obj("UserOrderByInput")>>),
                 Arg("tenant", FALSE, <<Obj("TenantOrderByInput")>>) >>)
        \o << InputType("StringFilter",
                 << Arg("equals", FALSE, <<Scalar("String"), FieldRef("StringFieldRefInput")>>),
                    Arg("mode", FALSE, <<EnumRef("QueryMode")>>) >>) >>
        \o IntFilterTypes,
      inputModel |-> <<>>,
      enumPrisma |->
        << EnumValues("SortOrder", <<"asc", "desc">>),
           EnumValues("QueryMode", <<"default", "insensitive">>),
           EnumValues("TenantScalarFieldEnum", <<"id", "name">>),
           EnumValues("UserScalarFieldEnum", <<"tenantId", "id", "email">>),
           EnumValues("PostScalarFieldEnum", <<"tenantId", "id", "title">>) >>,
      enumModel |-> <<>> ]

\* what a model contributes to a catalogue when it has one Int field and the
\* Query type has a findFirst field for it but no findMany field
PlainModel(m) ==
    [ datamodel |-> DmModel(m, <<DmField("id", "scalar", "Int", FALSE)>>),
      output |-> [name |-> m, fields |-> <<OutField("id", <<>>)>>],
      queries |->
        << QueryField("findFirst", m, <<Arg("where", FALSE, <<Obj(m \o "WhereInput")>>)>>) >>,
      inputs |->
        << InputType(m \o "WhereInput",
                     <<Arg("id", FALSE, <<Obj("IntFilter"), Scalar("Int")>>)>>) >> ]

\* two models whose names pluralize alike
NamesSchema ==
    [ models |-> <<"Data", "Datum">>,
      datamodel |-> << PlainModel("Data").datamodel, PlainModel("Datum").datamodel >>,
      outputModel |-> << PlainModel("Data").output, PlainModel("Datum").output >>,
      queryFields |-> PlainModel("Data").queries \o PlainModel("Datum").queries,
      inputPrisma |-> PlainModel("Data").inputs \o PlainModel("Datum").inputs \o IntFilterTypes,
      inputModel |-> <<>>,
      enumPrisma |-> <<>>,
      enumModel |-> <<>> ]

Scenarios == {"blog", "chain", "ring", "shop", "tenant", "names"}

SchemaOf(s) ==
    CASE s = "blog" -> BlogSchema
      [] s = "chain" -> ChainSchema
      [] s = "ring" -> RingSchema
      [] s = "shop" -> ShopSchema
      [] s = "tenant" -> TenantSchema
      [] s = "names" -> NamesSchema

-----------------------------------------------------------------------------
(* getInputType: the candidate chosen for an argument *)

\* Array.prototype.findIndex, 1-based; Test holds of some element
FindIndex(s, Test(_)) ==
    CHOOSE i \in 1..Len(s) : Test(s[i]) /\ \A j \in 1..(i - 1) : ~Test(s[j])

IsListObject(item) == item.isList /\ item.location = "inputObjectTypes"
IsList(item) == item.isList
IsObject(item) == item.location = "inputObjectTypes"
IsJson(item) == item.type = "Json"

getInputType_ObjectBeforeList(field) ==
    LET its == field.inputTypes
        idx == IF Len(its) > 1
               THEN IF \E i \in 1..Len(its) : IsListObject(its[i]) THEN FindIndex(its, IsListObject)
                    ELSE IF \E i \in 1..Len(its) : IsObject(its[i]) THEN FindIndex(its, IsObject)
                    ELSE IF \E i \in 1..Len(its) : IsList(its[i]) THEN FindIndex(its, IsList)
                    ELSE IF \E i \in 1..Len(its) : IsJson(its[i]) THEN FindIndex(its, IsJson)
                    ELSE 1
               ELSE 1
    IN its[idx]

getInputType(field) ==
    LET its == field.inputTypes
        idx == IF Len(its) > 1
               THEN IF \E i \in 1..Len(its) : IsListObject(its[i]) THEN FindIndex(its, IsListObject)
                    ELSE IF \E i \in 1..Len(its) : IsList(its[i]) THEN FindIndex(its, IsList)
                    ELSE IF \E i \in 1..Len(its) : IsObject(its[i]) THEN FindIndex(its, IsObject)
                    ELSE IF \E i \in 1..Len(its) : IsJson(its[i]) THEN FindIndex(its, IsJson)
                    ELSE 1
               ELSE 1
    IN its[idx]

-----------------------------------------------------------------------------
(* getInputTypes: one pass over the catalogue *)

NoError == [kind |-> "none", name |-> ""]
EmptyError(n) == [kind |-> "empty", name |-> n]
TooManyError == [kind |-> "tooMany", name |-> ""]
NoArgsError(m) == [kind |-> "noArgs", name |-> m]
UnknownQueryError(q) == [kind |-> "unknownQuery", name |-> q]

\* const enums = [...prisma, ...model]
Enums(sch) == sch.enumPrisma \o sch.enumModel
\* const inputObjectTypes = [...prisma, ...model]
InputObjectTypes(sch) == sch.inputPrisma \o sch.inputModel

\* new Set(options?.excludeInputFields)
ExcludeInputFields(opts) == ToSet(opts.excludeInputFields)

IsExcludedInput_WithOutput(opts, name) ==
    name \in ExcludeInputFields(opts) \cup ToSet(opts.excludeOutputFields)

\* excludeInputFields.has(name)
IsExcludedInput(opts, name) == name \in ExcludeInputFields(opts)

\* the input types the propagation rule looks the target up in
PropagationCatalogue(sch) == sch.inputPrisma

\* schema.inputObjectTypes.prisma?.find(t => t.name === type)
\*     ?.fields.some(f => f.isRequired && excludeInputFields.has(f.name))
HasExcludedRequiredField(sch, opts, type) ==
    LET cat == PropagationCatalogue(sch) IN
    /\ \E i \in 1..Len(cat) : cat[i].name = type
    /\ LET t == cat[CHOOSE i \in 1..Len(cat) :
                      cat[i].name = type /\ \A j \in 1..(i - 1) : cat[j].name # type]
       IN \E k \in 1..Len(t.fields) :
              t.fields[k].isRequired /\ IsExcludedInput(opts, t.fields[k].name)

\* the two early returns of the per-field callback
FieldDropped(sch, opts, field) ==
    \/ IsExcludedInput(opts, field.name)
    \/ HasExcludedRequiredField(sch, opts, getInputType(field).type)

\* localUsedInputTypes.has(n): in the first round localUsedInputTypes is the
\* very Set usedInputTypes, afterwards the Set the previous round returned
LocalHas(st, local, aliased, n) == IF aliased THEN n \in st.used ELSE n \in local

\* AlreadyWritten without the writtenTypes set: nothing counts as written
AlreadyWritten_Never(written, n) == FALSE

\* if (writtenTypes.has(input.name)) return
AlreadyWritten(written, n) == n \in written

\* Discover with input objects added to usedInputTypes at once, as enums are,
\* and not handed to the next round
Discover_InputsAsUsed(st, it) ==
    IF it.location \in {"inputObjectTypes", "enumTypes"}
    THEN [st EXCEPT !.used = @ \cup {it.type}]
    ELSE st

\* Discover without the enum branch: an enum met in a field is not added to
\* usedInputTypes
Discover_NoEnum(st, it) ==
    IF it.location = "inputObjectTypes"
    THEN [st EXCEPT !.remaining = @ \cup {it.type}]
    ELSE st

\* a surviving field whose target is not in localUsedInputTypes: an input
\* object is remembered for the next round, an enum goes straight to
\* usedInputTypes
Discover(st, it) ==
    IF it.location = "inputObjectTypes"
    THEN [st EXCEPT !.remaining = @ \cup {it.type}]
    ELSE IF it.location = "enumTypes"
    THEN [st EXCEPT !.used = @ \cup {it.type}]
    ELSE st

\* the line pushed for a surviving field
FieldLine(field, it) ==
    [name |-> field.name, type |-> it.type, location |-> it.location,
     isList |-> it.isList, isRequired |-> field.isRequired]

\* the callback of input.fields.forEach for one field
AddField(sch, opts, field, st, local, aliased) ==
    IF FieldDropped(sch, opts, field) THEN st
    ELSE With(getInputType(field), LAMBDA it :
            [(IF LocalHas(st, local, aliased, it.type) THEN st ELSE Discover(st, it))
                EXCEPT !.cur = Append(@, FieldLine(field, it))])

\* input.fields.forEach(...): st.cur collects the lines pushed after the header
RECURSIVE AddFields(_, _, _, _, _, _, _)
AddFields(sch, opts, fields, j, st, local, aliased) ==
    IF j > Len(fields) THEN st
    ELSE With(AddField(sch, opts, fields[j], st, local, aliased), LAMBDA st1 :
            AddFields(sch, opts, fields, j + 1, st1, local, aliased))

\* EmptyIsFatal with the throw never taken: the header is popped silently
EmptyIsFatal_Never(st, local, aliased, n) == FALSE

\* actualFieldsCount === 0 && localUsedInputTypes.has(input.name): throw
EmptyIsFatal(st, local, aliased, n) == LocalHas(st, local, aliased, n)

\* the callback of inputObjectTypes.forEach for one input type
AddInputType(sch, opts, input, st, local, aliased) ==
    IF Len(input.fields) = 0 THEN st
    ELSE IF ~LocalHas(st, local, aliased, input.name) THEN st
    ELSE IF AlreadyWritten(st.written, input.name) THEN st
    ELSE With(AddFields(sch, opts, input.fields, 1, [st EXCEPT !.cur = <<>>],
                        local, aliased),
              LAMBDA st1 :
                IF Len(st1.cur) = 0
                THEN IF EmptyIsFatal(st1, local, aliased, input.name)
                     THEN [st1 EXCEPT !.thrown = EmptyError(input.name)]
                     ELSE st1
                ELSE [st1 EXCEPT
                        !.content = Append(@, [kind |-> "input", name |-> input.name,
                                               fields |-> st1.cur, values |-> <<>>]),
                        !.written = @ \cup {input.name},
                        !.cur = <<>>])

\* inputObjectTypes.forEach(...), left by the first throw
RECURSIVE AddInputTypesFrom(_, _, _, _, _, _)
AddInputTypesFrom(sch, opts, k, st, local, aliased) ==
    With(InputObjectTypes(sch), LAMBDA types :
        IF k > Len(types) \/ st.thrown.kind # "none" THEN st
        ELSE With(AddInputType(sch, opts, types[k], st, local, aliased), LAMBDA st1 :
                AddInputTypesFrom(sch, opts, k + 1, st1, local, aliased)))

\* addInputObjectTypesToFileContent(inputObjectTypes, localUsedInputTypes):
\* from (usedInputTypes, writtenTypes, fileContent) to the same after the
\* pass, with .remaining the returned Set and .thrown the Error thrown
addInputObjectTypesToFileContent(sch, opts, used, written, content, local, aliased) ==
    AddInputTypesFrom(sch, opts, 1,
        [used |-> used, remaining |-> {}, written |-> written, content |-> content,
         cur |-> <<>>, thrown |-> NoError],
        local, aliased)

EnumValuesOf_Value(item) ==
    IF item.hasData
    THEN [i \in 1..Len(item.data) |-> item.data[i].value]
    ELSE item.values

\* the values of an enum in either wire shape:
\* 'data' in item ? item.data : item.values, then string ? item2 : item2.key
EnumValuesOf(item) ==
    IF item.hasData
    THEN [i \in 1..Len(item.data) |-> item.data[i].key]
    ELSE item.values

\* EnumValueKept without the excludeInputFields test
EnumValueKept_All(opts, v) == TRUE

\* the filter of the enum value loop
EnumValueKept(opts, v) == ~IsExcludedInput(opts, v)

\* addEnumTypesToFileContent(enums, usedInputTypes)
RECURSIVE addEnumTypesToFileContent(_, _, _, _, _, _)
addEnumTypesToFileContent(sch, opts, k, used, written, content) ==
    IF k > Len(Enums(sch)) THEN [written |-> written, content |-> content]
    ELSE With(Enums(sch)[k], LAMBDA item :
            IF item.name \notin used \/ AlreadyWritten(written, item.name)
            THEN addEnumTypesToFileContent(sch, opts, k + 1, used, written, content)
            ELSE With([written |-> written \cup {item.name},
                       content |->
                          Append(content, [kind |-> "enum", name |-> item.name,
                                           fields |-> <<>>,
                                           values |-> FilterSeq(EnumValuesOf(item),
                                                   LAMBDA v : EnumValueKept(opts, v), 1)])],
                      LAMBDA st :
                        addEnumTypesToFileContent(sch, opts, k + 1, used,
                                                  st.written, st.content)))

\* fileContent as getInputTypes creates it: the two scalars and BatchPayload
InitialFileContent ==
    << [kind |-> "scalar", name |-> "Json", fields |-> <<>>, values |-> <<>>],
       [kind |-> "scalar", name |-> "DateTime", fields |-> <<>>, values |-> <<>>],
       [kind |-> "type", name |-> "BatchPayload", fields |-> <<>>, values |-> <<>>] >>

\* the 5 of if (index > 5)
MaxIndex == 5

\* TooManyIterations with the bound never applied
TooManyIterations_Never(i) == FALSE

\* TooManyIterations with the bound one round early (index > 4)
TooManyIterations_OneEarly(i) == i > MaxIndex - 1

\* if (index > 5) throw new Error("Too many iterations")
TooManyIterations(i) == i > MaxIndex

\* const difference = Array.from(remainingInputTypes).filter(item => !usedInputTypes.has(item))
Difference(remaining, used) == remaining \ used

-----------------------------------------------------------------------------
(* getTypeDef: what one model adds to usedInputTypes before its first await *)

allQueries == <<"findFirst", "findMany", "count">>

\* options?.queries ?? allQueries
Queries(opts) == IF opts.hasQueries THEN opts.queries ELSE allQueries

ExcludeOutputFields_Both(opts) == opts.excludeOutputFields \o opts.excludeInputFields

\* options?.excludeOutputFields ?? []
ExcludeOutputFields(opts) == opts.excludeOutputFields

\* the field names of the catalogues for which name.startsWith('_') holds
UnderscoreNames == {"_count"}
StartsWithUnderscore(name) == name \in UnderscoreNames

OutputFieldSkipped_OnlyExcluded(excludeFields, field) == Includes(excludeFields, field.name)

\* getType's two early returns for an output field
OutputFieldSkipped(excludeFields, field) ==
    \/ Includes(excludeFields, field.name)
    \/ StartsWithUnderscore(field.name)

\* usedInputTypes.add(getInputType(arg).type) for every arg of a list
ArgTypes(args) == {getInputType(args[i]).type : i \in 1..Len(args)}

\* getType(modelOutputType, excludeFields, usedInputTypes): the names it adds
getType(modelOutputType, excludeFields) ==
    UNION {ArgTypes(modelOutputType.fields[i].args) :
             i \in {j \in 1..Len(modelOutputType.fields) :
                      ~OutputFieldSkipped(excludeFields, modelOutputType.fields[j])}}

\* schema.outputObjectTypes.model.find(m => m.name === model.name)
ModelOutputType(sch, modelName) ==
    sch.outputModel[CHOOSE i \in 1..Len(sch.outputModel) : sch.outputModel[i].name = modelName]

\* the Query field named `${query}${modelName}`, if the catalogue has one
HasQueryField(sch, query, modelName) ==
    \E i \in 1..Len(sch.queryFields) :
        sch.queryFields[i].query = query /\ sch.queryFields[i].model = modelName
QueryArgs(sch, query, modelName) ==
    sch.queryFields[CHOOSE i \in 1..Len(sch.queryFields) :
        sch.queryFields[i].query = query /\ sch.queryFields[i].model = modelName].args

QueryTypeDef_SkipMissing(sch, modelName, query) ==
    IF query \in {"findFirst", "findMany"}
    THEN IF HasQueryField(sch, query, modelName)
         THEN [added |-> ArgTypes(QueryArgs(sch, query, modelName)), thrown |-> NoError]
         ELSE [added |-> {}, thrown |-> NoError]
    ELSE IF query = "count"
    THEN With(FilterSeq(IF HasQueryField(sch, "findMany", modelName)
                        THEN QueryArgs(sch, "findMany", modelName) ELSE <<>>,
                        LAMBDA a : a.name = "where", 1),
              LAMBDA wheres :
                [added |-> {getInputType(wheres[j]).type : j \in 1..Len(wheres)},
                 thrown |-> NoError])
    ELSE [added |-> {}, thrown |-> UnknownQueryError(query)]

\* one element of the queries.map of getTypeDef: the names added, or the throw
QueryTypeDef(sch, modelName, query) ==
    IF query \in {"findFirst", "findMany"}
    THEN \* getQueryInputArguments
         IF HasQueryField(sch, query, modelName)
         THEN [added |-> ArgTypes(QueryArgs(sch, query, modelName)), thrown |-> NoError]
         ELSE [added |-> {}, thrown |-> NoArgsError(modelName)]
    ELSE IF query = "count"
    THEN With(FilterSeq(IF HasQueryField(sch, "findMany", modelName)
                        THEN QueryArgs(sch, "findMany", modelName) ELSE <<>>,
                        LAMBDA a : a.name = "where", 1),
              LAMBDA wheres :
                IF Len(wheres) > 0
                THEN [added |-> {getInputType(wheres[1]).type}, thrown |-> NoError]
                ELSE [added |-> {}, thrown |-> NoError])
    ELSE [added |-> {}, thrown |-> UnknownQueryError(query)]

\* (options?.queries ?? allQueries).map(...), left by the first throw
RECURSIVE QueriesTypeDefs(_, _, _, _, _)
QueriesTypeDefs(sch, modelName, queries, k, acc) ==
    IF k > Len(queries) \/ acc.thrown.kind # "none" THEN acc
    ELSE With(QueryTypeDef(sch, modelName, queries[k]), LAMBDA r :
            With([used |-> acc.used \cup r.added, thrown |-> r.thrown], LAMBDA acc1 :
                QueriesTypeDefs(sch, modelName, queries, k + 1, acc1)))

\* getTypeDef up to its await: usedInputTypes afterwards and the Error thrown
getTypeDef(sch, opts, modelName, used) ==
    QueriesTypeDefs(sch, modelName, Queries(opts), 1,
        [used |-> used \cup getType(ModelOutputType(sch, modelName), ExcludeOutputFields(opts)),
         thrown |-> NoError])

-----------------------------------------------------------------------------
(* pluralName, singularName *)

\* pluralize(word) on the words the catalogues' model names lead to:
\* datum/data is irregular, the other words take an s
Pluralize(w) ==
    CASE w \in {"Data", "Datum"} -> "Data"
      [] w \in {"data", "datum"} -> "data"
      [] OTHER -> w \o "s"

\* singular(word), called for a model name that is its own plural
Singular(w) == CASE w = "Data" -> "Datum"

\* `${modelName[0].toLowerCase()}${modelName.slice(1)}`
LowerFirst(w) ==
    IF \E i \in 1..(ChainLen + 1) : w = ChainModel(i)
    THEN "m" \o ToString(CHOOSE i \in 1..(ChainLen + 1) : w = ChainModel(i))
    ELSE CASE w = "User" -> "user"
           [] w = "Post" -> "post"
           [] w = "Tenant" -> "tenant"
           [] w = "Ring" -> "ring"
           [] w = "Shop" -> "shop"
           [] w = "Datum" -> "datum"

singularName(modelName) ==
    LowerFirst(IF Pluralize(modelName) = modelName THEN Singular(modelName) ELSE modelName)

pluralName(modelName) == Pluralize(singularName(modelName))

-----------------------------------------------------------------------------
(* getTypeDef and getResolvers: the text of one model *)

\* `${arg.name}: ${type}` of an argument: the candidate getInputType chooses,
\* with ! when required and [] when a list
ArgLine(arg) ==
    With(getInputType(arg), LAMBDA it :
        [name |-> arg.name, type |-> it.type, isList |-> it.isList,
         isRequired |-> arg.isRequired])
ArgLines(args) == [j \in 1..Len(args) |-> ArgLine(args[j])]

\* getType: the line of an output field that is kept; [T!]! for a list,
\* T or T! otherwise
OutputFieldLine(field) ==
    [name |-> field.name, args |-> ArgLines(field.args),
     type |-> field.outputType.type, isList |-> field.outputType.isList,
     nonNull |-> field.outputType.isList \/ ~field.isNullable]

\* getType: `type ${modelOutputType.name} { fields }`
TypeText(modelOutputType, excludeFields) ==
    With(FilterSeq(modelOutputType.fields,
                   LAMBDA f : ~OutputFieldSkipped(excludeFields, f), 1),
         LAMBDA kept :
            [name |-> modelOutputType.name,
             fields |-> [j \in 1..Len(kept) |-> OutputFieldLine(kept[j])]])

\* args.find(arg => arg.name === 'where') of findMany${model.name}
CountWhereArgs(sch, modelName) ==
    FilterSeq(IF HasQueryField(sch, "findMany", modelName)
              THEN QueryArgs(sch, "findMany", modelName) ELSE <<>>,
              LAMBDA a : a.name = "where", 1)

\* inputArgs of getQueryInputArguments; a model without the Query field has
\* no signature, its getTypeDef throws
SignatureArgs(sch, modelName, query) ==
    IF HasQueryField(sch, query, modelName)
    THEN ArgLines(QueryArgs(sch, query, modelName))
    ELSE <<>>

\* the signature getTypeDef returns for one query of a model whose entries exist
QuerySignature(sch, modelName, query) ==
    CASE query = "findFirst" ->
            [name |-> singularName(modelName), query |-> query,
             args |-> SignatureArgs(sch, modelName, query),
             type |-> modelName, isList |-> FALSE, nonNull |-> FALSE]
      [] query = "findMany" ->
            [name |-> pluralName(modelName), query |-> query,
             args |-> SignatureArgs(sch, modelName, query),
             type |-> modelName, isList |-> TRUE, nonNull |-> TRUE]
      [] query = "count" ->
            [name |-> pluralName(modelName) \o "Count", query |-> query,
             args |-> IF Len(CountWhereArgs(sch, modelName)) > 0
                      THEN << [name |-> "where",
                               type |-> getInputType(CountWhereArgs(sch, modelName)[1]).type,
                               isList |-> FALSE, isRequired |-> FALSE] >>
                      ELSE <<>>,
             type |-> "Int", isList |-> FALSE, nonNull |-> TRUE]

\* the typeDef of a model for which getTypeDef does not throw:
\* `${type} type Query { ${queriesTypeDefs} }`
TypeDefText(sch, opts, modelName) ==
    [type |-> TypeText(ModelOutputType(sch, modelName), ExcludeOutputFields(opts)),
     queries |-> [k \in 1..Len(Queries(opts)) |->
                    QuerySignature(sch, modelName, Queries(opts)[k])]]

\* dmmf.datamodel.models: the entry of a model
DatamodelOf(sch, modelName) ==
    sch.datamodel[CHOOSE i \in 1..Len(sch.datamodel) : sch.datamodel[i].name = modelName]

\* getResolvers: the name under Query, the Prisma call and what it is called with
ResolverOf(modelName, query) ==
    CASE query = "findFirst" ->
            [name |-> singularName(modelName), call |-> "findFirst", model |-> modelName,
             usesSelect |-> TRUE, forwards |-> "all"]
      [] query = "findMany" ->
            [name |-> pluralName(modelName), call |-> "findMany", model |-> modelName,
             usesSelect |-> TRUE, forwards |-> "all"]
      [] query = "count" ->
            [name |-> pluralName(modelName) \o "Count", call |-> "count", model |-> modelName,
             usesSelect |-> FALSE, forwards |-> "where"]

\* getResolvers(model, options): the ${MODEL}_FIELDS constant and the Query resolvers
getResolvers(sch, opts, modelName) ==
    [fields |-> DatamodelOf(sch, modelName).fields,
     resolvers |-> [k \in 1..Len(Queries(opts)) |-> ResolverOf(modelName, Queries(opts)[k])]]

NoTypeDef == [type |-> [name |-> "", fields |-> <<>>], queries |-> <<>>]
NoResolvers == [fields |-> <<>>, resolvers |-> <<>>]

-----------------------------------------------------------------------------
(* generate: the models it maps over *)

\* options.models ? datamodel.models.filter(m => options.models.includes(m.name)) : datamodel.models
Models(sch, opts) ==
    IF opts.hasModels
    THEN FilterSeq(sch.models, LAMBDA m : Includes(opts.models, m), 1)
    ELSE sch.models

IsExcludedModel_UnlessAllowed(opts, modelName) ==
    /\ opts.hasExcludeModels /\ Includes(opts.excludeModels, modelName)
    /\ ~(opts.hasModels /\ Includes(opts.models, modelName))

\* !!options?.excludeModels && options.excludeModels.includes(model.name)
IsExcludedModel(opts, modelName) ==
    opts.hasExcludeModels /\ Includes(opts.excludeModels, modelName)

-----------------------------------------------------------------------------
(* The options the runs are given *)

Opts(hm, ms, hx, xs, ei, eo, hq, qs) ==
    [hasModels |-> hm, models |-> ms, hasExcludeModels |-> hx, excludeModels |-> xs,
     excludeInputFields |-> ei, excludeOutputFields |-> eo, hasQueries |-> hq, queries |-> qs]

Absent == [has |-> FALSE, list |-> <<>>]
Given(l) == [has |-> TRUE, list |-> l]

OptionsFrom(modelLists, excludeLists, inputFieldLists, outputFieldLists, queryLists) ==
    {Opts(m.has, m.list, x.has, x.list, ei, eo, q.has, q.list) :
        m \in modelLists, x \in excludeLists, ei \in inputFieldLists,
        eo \in outputFieldLists, q \in queryLists}

BlogOptions ==
    OptionsFrom({Absent, Given(<<"User">>), Given(<<"Post">>)},
                {Absent, Given(<<"Post">>)},
                {<<>>, <<"tenantId">>, <<"email">>, <<"tenantId", "email">>},
                {<<>>, <<"tenantId">>, <<"posts">>, <<"tenantId", "posts">>},
                {Absent, Given(<<"findMany", "count">>), Given(<<"count">>)})

ChainOptions ==
    OptionsFrom({Absent} \cup {Given(<<ChainModel(i)>>) : i \in 1..ChainLen},
                {Absent},
                {<<>>, <<"id">>},
                {<<>>, <<"id">>},
                {Absent, Given(<<"findMany">>), Given(<<"count", "findMany">>)})

RingOptions ==
    OptionsFrom({Absent},
                {Absent, Given(<<"Ring">>)},
                {<<>>, <<"tenantId">>, <<"skip">>, <<"asc">>, <<"tenantId", "next", "skip", "order">>},
                {<<>>, <<"id">>},
                {Absent, Given(<<"findMany", "aggregate">>)})

ShopOptions ==
    OptionsFrom({Absent},
                {Absent},
                {<<>>, <<"tenantId">>, <<"email">>, <<"tenantId", "email">>},
                {<<>>, <<"id">>},
                {Absent, Given(<<"findFirst">>), Given(<<"findMany", "count">>)})

\* the generator block of the test schema, with and without the relation field
TenantOptions ==
    OptionsFrom({Absent, Given(<<"User", "Tenant">>), Given(<<"Post", "User">>)},
                {Absent, Given(<<"Tenant">>)},
                {<<"tenantId">>, <<"tenantId", "tenant">>},
                {<<"tenantId">>, <<"tenantId", "tenant">>},
                {Absent, Given(<<"findMany", "count">>)})

NamesOptions ==
    OptionsFrom({Absent, Given(<<"Datum">>)},
                {Absent, Given(<<"Data">>)},
                {<<>>},
                {<<>>},
                {Absent, Given(<<"count", "findFirst">>)})

OptionsOf(s) ==
    CASE s = "blog" -> BlogOptions
      [] s = "chain" -> ChainOptions
      [] s = "ring" -> RingOptions
      [] s = "shop" -> ShopOptions
      [] s = "tenant" -> TenantOptions
      [] s = "names" -> NamesOptions

-----------------------------------------------------------------------------
(* generate as a function of the document and the options *)

\* LoopIteration with usedInputTypes replaced by the difference
LoopIteration_UsedReplaced(sch, opts, used, remaining, i, written, content) ==
    IF TooManyIterations(i)
    THEN [thrown |-> TooManyError, used |-> used, remaining |-> remaining, index |-> i,
          count |-> 0, written |-> written, content |-> content]
    ELSE With(addInputObjectTypesToFileContent(sch, opts, used, written, content,
                                               remaining, i = 0),
              LAMBDA st :
                With(Difference(st.remaining, st.used), LAMBDA difference :
                    [thrown |-> st.thrown, used |-> difference,
                     remaining |-> st.remaining, index |-> i + 1,
                     count |-> Cardinality(difference), written |-> st.written,
                     content |-> st.content]))

\* one iteration of the do ... while of getInputTypes, as a function of
\* (usedInputTypes, remainingInputTypes, index, writtenTypes, fileContent)
LoopIteration(sch, opts, used, remaining, i, written, content) ==
    IF TooManyIterations(i)
    THEN [thrown |-> TooManyError, used |-> used, remaining |-> remaining, index |-> i,
          count |-> 0, written |-> written, content |-> content]
    ELSE With(addInputObjectTypesToFileContent(sch, opts, used, written, content,
                                               remaining, i = 0),
              LAMBDA st :
                With(Difference(st.remaining, st.used), LAMBDA difference :
                    [thrown |-> st.thrown, used |-> st.used \cup difference,
                     remaining |-> st.remaining, index |-> i + 1,
                     count |-> Cardinality(difference), written |-> st.written,
                     content |-> st.content]))

\* while (remainingCount > 0)
LoopContinues(count) == count > 0

\* the do ... while and the enums after it: the Error thrown and the blocks
RECURSIVE getInputTypesLoop(_, _, _, _, _, _, _)
getInputTypesLoop(sch, opts, used, remaining, i, written, content) ==
    With(LoopIteration(sch, opts, used, remaining, i, written, content), LAMBDA r :
        IF r.thrown.kind # "none" THEN [thrown |-> r.thrown, content |-> <<>>]
        ELSE IF LoopContinues(r.count)
        THEN getInputTypesLoop(sch, opts, r.used, r.remaining, r.index, r.written, r.content)
        ELSE [thrown |-> NoError,
              content |-> addEnumTypesToFileContent(sch, opts, 1, r.used, r.written,
                                                    r.content).content])

\* getInputTypes(schema, usedInputTypes, usedModels, options)
getInputTypes(sch, opts, used) ==
    getInputTypesLoop(sch, opts, used, used, 0, {}, InitialFileContent)

\* MapModels with a set of used types of its own for every model
RECURSIVE MapModels_OwnSet(_, _, _, _)
MapModels_OwnSet(sch, opts, i, acc) ==
    IF i > Len(Models(sch, opts)) THEN acc
    ELSE IF IsExcludedModel(opts, Models(sch, opts)[i])
    THEN MapModels_OwnSet(sch, opts, i + 1, acc)
    ELSE With(getTypeDef(sch, opts, Models(sch, opts)[i], {}), LAMBDA r :
            With([used |-> r.used,
                  thrown |-> IF acc.thrown.kind # "none" THEN acc.thrown ELSE r.thrown],
                 LAMBDA acc1 : MapModels_OwnSet(sch, opts, i + 1, acc1)))

\* models.map(...): every model that is not excluded runs getTypeDef up to its
\* await; .thrown is the first rejection
RECURSIVE MapModels(_, _, _, _)
MapModels(sch, opts, i, acc) ==
    IF i > Len(Models(sch, opts)) THEN acc
    ELSE IF IsExcludedModel(opts, Models(sch, opts)[i]) THEN MapModels(sch, opts, i + 1, acc)
    ELSE With(getTypeDef(sch, opts, Models(sch, opts)[i], acc.used), LAMBDA r :
            With([used |-> r.used,
                  thrown |-> IF acc.thrown.kind # "none" THEN acc.thrown ELSE r.thrown],
                 LAMBDA acc1 : MapModels(sch, opts, i + 1, acc1)))

\* usedInputTypes when getInputTypes is called
SeedTypes(sch, opts) == MapModels(sch, opts, 1, [used |-> {}, thrown |-> NoError]).used

\* generate(dmmf, options): the Error it rejects with and the blocks of inputTypes
generate(sch, opts) ==
    With(MapModels(sch, opts, 1, [used |-> {}, thrown |-> NoError]), LAMBDA seeded :
        IF seeded.thrown.kind # "none" THEN [thrown |-> seeded.thrown, content |-> <<>>]
        ELSE getInputTypes(sch, opts, seeded.used))

-----------------------------------------------------------------------------
(* The run *)

Schema == SchemaOf(scenario)
TheModels == Models(Schema, options)

Pending == [state |-> "pending", thrown |-> NoError, typeDef |-> NoTypeDef,
            resolvers |-> NoResolvers]

\* no resolver is running
NoRequest == [resolver |-> "", args |-> <<>>, info |-> [hasSelectionSet |-> FALSE, selections |-> <<>>]]
NotTranslated == [kind |-> "none"]

NoOutput == [indexFile |-> <<>>, inputTypes |-> <<>>, models |-> <<>>]

\* generatedModels: the values of the promises Promise.all was given, in the
\* order of the array
GeneratedModels(t) ==
    With(FilterSeq([i \in DOMAIN t |-> i], LAMBDA i : t[i].state = "fulfilled", 1),
         LAMBDA kept :
            [k \in 1..Len(kept) |->
                [modelName |-> TheModels[kept[k]], typeDef |-> t[kept[k]].typeDef,
                 resolvers |-> t[kept[k]].resolvers]])

\* generateIndexFile(models): the imports and the typeDefs/resolvers arrays name
\* the models in the order given
generateIndexFile(models) == [k \in 1..Len(models) |-> models[k].modelName]

Init ==
    /\ scenario \in Scenarios
    /\ options \in OptionsOf(scenario)
    /\ pc = "map"
    /\ mapIndex = 1
    /\ task = [i \in 1..Len(Models(SchemaOf(scenario), options)) |-> Pending]
    /\ usedInputTypes = {}
    /\ remainingInputTypes = {}
    /\ index = 0
    /\ remainingCount = 0
    /\ writtenTypes = {}
    /\ fileContent = <<>>
    /\ error = NoError
    /\ output = NoOutput
    /\ sink = {}
    /\ served = NoResolvers
    /\ request = NoRequest
    /\ prismaSelect = NotTranslated
    /\ calls = <<>>
    /\ frames = <<>>

resolverVars == <<remainingInputTypes, index, remainingCount, writtenTypes, fileContent>>

\* models.map callback, excluded model: return null
MapSkipModel ==
    /\ pc = "map"
    /\ mapIndex <= Len(TheModels)
    /\ IsExcludedModel(options, TheModels[mapIndex])
    /\ task' = [task EXCEPT ![mapIndex] = [Pending EXCEPT !.state = "skipped"]]
    /\ mapIndex' = mapIndex + 1
    /\ UNCHANGED <<serveVars, scenario, options, output, sink, pc, usedInputTypes, resolverVars, error>>

\* models.map callback: generateModelResolversAndTypeDef runs getTypeDef up to
\* its await formatGraphql(...)
MapStartModel ==
    /\ pc = "map"
    /\ mapIndex <= Len(TheModels)
    /\ ~IsExcludedModel(options, TheModels[mapIndex])
    /\ \E r \in {getTypeDef(Schema, options, TheModels[mapIndex], usedInputTypes)} :
        /\ r.thrown.kind = "none"
        /\ usedInputTypes' = r.used
        /\ task' = [task EXCEPT ![mapIndex] =
                        [Pending EXCEPT !.state = "formatting",
                                        !.typeDef = TypeDefText(Schema, options,
                                                                TheModels[mapIndex])]]
    /\ mapIndex' = mapIndex + 1
    /\ UNCHANGED <<serveVars, scenario, options, output, sink, pc, resolverVars, error>>

\* models.map callback: getTypeDef throws before its await, the promise of the
\* model is rejected; what it added before the throw stays in usedInputTypes
MapRejectModel ==
    /\ pc = "map"
    /\ mapIndex <= Len(TheModels)
    /\ ~IsExcludedModel(options, TheModels[mapIndex])
    /\ \E r \in {getTypeDef(Schema, options, TheModels[mapIndex], usedInputTypes)} :
        /\ r.thrown.kind # "none"
        /\ usedInputTypes' = r.used
        /\ task' = [task EXCEPT ![mapIndex] = [Pending EXCEPT !.state = "rejected", !.thrown = r.thrown]]
    /\ mapIndex' = mapIndex + 1
    /\ UNCHANGED <<serveVars, scenario, options, output, sink, pc, resolverVars, error>>

\* the map has visited every model: generate reaches await Promise.all(...)
MapComplete(i, models) == i > Len(models)

AwaitAll ==
    /\ pc = "map"
    /\ MapComplete(mapIndex, TheModels)
    /\ pc' = "join"
    /\ UNCHANGED <<serveVars, scenario, options, output, sink, mapIndex, task, usedInputTypes, resolverVars, error>>

\* a model's formatGraphql resolves; getResolvers builds the resolver text and
\* the model's promise is fulfilled.  Runs only once generate has yielded.
FinishModel(i) ==
    /\ pc # "map"
    /\ task[i].state = "formatting"
    /\ task' = [task EXCEPT ![i].state = "fulfilled",
                             ![i].resolvers = getResolvers(Schema, options, TheModels[i])]
    /\ UNCHANGED <<serveVars, scenario, options, output, sink, pc, mapIndex, usedInputTypes, resolverVars, error>>

AllFulfilled_Any(t) == \E i \in DOMAIN t : t[i].state \in {"skipped", "fulfilled"}

\* Promise.all is fulfilled when every promise handed to it is
AllFulfilled(t) == \A i \in DOMAIN t : t[i].state \in {"skipped", "fulfilled"}

\* await Promise.all(generatedModelsPromises) returns; formatModelsOutput is awaited
JoinFulfilled ==
    /\ pc = "join"
    /\ AllFulfilled(task)
    /\ pc' = "formatModels"
    /\ UNCHANGED <<serveVars, scenario, options, output, sink, mapIndex, task, usedInputTypes, resolverVars, error>>

\* await Promise.all(...) throws the first rejection
JoinRejected ==
    /\ pc = "join"
    /\ \E i \in DOMAIN task : task[i].state = "rejected"
    /\ LET first == CHOOSE i \in DOMAIN task :
                        /\ task[i].state = "rejected"
                        /\ \A j \in 1..(i - 1) : task[j].state # "rejected"
       IN error' = task[first].thrown
    /\ pc' = "error"
    /\ UNCHANGED <<serveVars, scenario, options, output, sink, mapIndex, task, usedInputTypes, resolverVars>>

\* formatModelsOutput resolves and getInputTypes is called:
\* fileContent, writtenTypes, remainingInputTypes = usedInputTypes, index = 0
StartGetInputTypes ==
    /\ pc = "formatModels"
    /\ pc' = "resolve"
    /\ fileContent' = InitialFileContent
    /\ writtenTypes' = {}
    /\ remainingInputTypes' = usedInputTypes
    /\ index' = 0
    /\ remainingCount' = 0
    /\ UNCHANGED <<serveVars, scenario, options, output, sink, mapIndex, task, usedInputTypes, error>>

ThisIteration ==
    LoopIteration(Schema, options, usedInputTypes, remainingInputTypes, index,
                  writtenTypes, fileContent)

\* an iteration that completes: the pass, the difference, ++index, and the
\* loop test
ResolveRound ==
    /\ pc = "resolve"
    /\ \E r \in {ThisIteration} :
        /\ r.thrown.kind = "none"
        /\ usedInputTypes' = r.used
        /\ remainingInputTypes' = r.remaining
        /\ index' = r.index
        /\ remainingCount' = r.count
        /\ writtenTypes' = r.written
        /\ fileContent' = r.content
        /\ pc' = IF LoopContinues(r.count) THEN "resolve" ELSE "enums"
    /\ UNCHANGED <<serveVars, scenario, options, output, sink, mapIndex, task, error>>

\* an iteration in which an input type is left with no field
ResolveThrowEmpty ==
    /\ pc = "resolve"
    /\ \E r \in {ThisIteration} :
        /\ r.thrown.kind = "empty"
        /\ error' = r.thrown
    /\ pc' = "error"
    /\ UNCHANGED <<serveVars, scenario, options, output, sink, mapIndex, task, usedInputTypes, resolverVars>>

\* if (index > 5) throw new Error("Too many iterations")
ResolveThrowTooMany ==
    /\ pc = "resolve"
    /\ \E r \in {ThisIteration} :
        /\ r.thrown.kind = "tooMany"
        /\ error' = r.thrown
    /\ pc' = "error"
    /\ UNCHANGED <<serveVars, scenario, options, output, sink, mapIndex, task, usedInputTypes, resolverVars>>

\* addEnumTypesToFileContent(enums, usedInputTypes); the text is formatted and
\* generate returns
EmitEnums ==
    /\ pc = "enums"
    /\ \E r \in {addEnumTypesToFileContent(Schema, options, 1, usedInputTypes,
                                           writtenTypes, fileContent)} :
        /\ writtenTypes' = r.written
        /\ fileContent' = r.content
        /\ output' = [indexFile |-> generateIndexFile(GeneratedModels(task)),
                       inputTypes |-> r.content,
                       models |-> GeneratedModels(task)]
    /\ pc' = "done"
    /\ UNCHANGED <<serveVars, scenario, options, sink, mapIndex, task, usedInputTypes,
                   remainingInputTypes, index, remainingCount, error>>

GenerateReturned_OrRejected == pc \in {"done", "error"}

\* onGenerate: generate has returned, writeGenerateOutput(output, outputDir) is called
GenerateReturned == pc = "done"

CallWrite ==
    /\ GenerateReturned
    /\ pc' = "writeModels"
    /\ UNCHANGED <<serveVars, scenario, options, output, sink, mapIndex, task, usedInputTypes,
                   resolverVars, error>>

\* the two files of one model: mkdir(dir, {recursive}) and writeFile, for
\* resolvers.ts and typeDefs.ts; the models are written in any order
ModelFiles(modelName) ==
    {[dir |-> modelName, file |-> "resolvers.ts"], [dir |-> modelName, file |-> "typeDefs.ts"]}

WriteModelFiles(i) ==
    /\ pc = "writeModels"
    /\ i \in 1..Len(output.models)
    /\ ~(ModelFiles(output.models[i].modelName) \subseteq sink)
    /\ sink' = sink \cup ModelFiles(output.models[i].modelName)
    /\ UNCHANGED <<serveVars, scenario, options, output, pc, mapIndex, task, usedInputTypes,
                   resolverVars, error>>

\* await Promise.all(data.models.map(...)) has returned: inputTypes.ts is written
WriteInputTypes ==
    /\ pc = "writeModels"
    /\ \A i \in 1..Len(output.models) : ModelFiles(output.models[i].modelName) \subseteq sink
    /\ sink' = sink \cup {[dir |-> ".", file |-> "inputTypes.ts"]}
    /\ pc' = "writeIndex"
    /\ UNCHANGED <<serveVars, scenario, options, output, mapIndex, task, usedInputTypes,
                   resolverVars, error>>

\* index.ts is written and onGenerate returns
WriteIndex ==
    /\ pc = "writeIndex"
    /\ sink' = sink \cup {[dir |-> ".", file |-> "index.ts"]}
    /\ pc' = "written"
    /\ UNCHANGED <<serveVars, scenario, options, output, mapIndex, task, usedInputTypes,
                   resolverVars, error>>


Next ==
    \/ MapSkipModel
    \/ MapStartModel
    \/ MapRejectModel
    \/ AwaitAll
    \/ \E i \in DOMAIN task : FinishModel(i)
    \/ JoinFulfilled
    \/ JoinRejected
    \/ StartGetInputTypes
    \/ ResolveRound
    \/ ResolveThrowEmpty
    \/ ResolveThrowTooMany
    \/ EmitEnums
    \/ CallWrite
    \/ \E i \in 1..Len(output.models) : WriteModelFiles(i)
    \/ WriteInputTypes
    \/ WriteIndex

Spec == Init /\ [][Next]_vars

\* the event loop runs every continuation that is ready
FairSpec == Spec /\ WF_vars(Next)

-----------------------------------------------------------------------------
(* The generated resolvers at run time: buildPrismaSelect, buildNestedSelect *)

\* a selection of a GraphQL selection set: a field, with or without a nested
\* selection set, or an inline fragment
FieldNode(n) ==
    [kind |-> "Field", name |-> n, arguments |-> <<>>, hasSelectionSet |-> FALSE,
     selections |-> <<>>]
NestedNode(n, sels) ==
    [kind |-> "Field", name |-> n, arguments |-> <<>>, hasSelectionSet |-> TRUE,
     selections |-> sels]
\* name(arguments) { selections }
NestedNodeWith(n, as, sels) == [NestedNode(n, sels) EXCEPT !.arguments = as]
\* ... on Type { selections }
InlineFragment(sels) ==
    [kind |-> "InlineFragment", name |-> "", arguments |-> <<>>, hasSelectionSet |-> TRUE,
     selections |-> sels]

\* the values of a Prisma select object: true, or { select: {...} }
TrueValue == [kind |-> "true"]
SelectObject(select) == [kind |-> "select", select |-> select]
\* the object {} buildPrismaSelect returns when nothing is selected
EmptyObject == [kind |-> "empty"]

\* select[fieldName] = value
SetKey(obj, k, v) == [x \in DOMAIN obj \cup {k} |-> IF x = k THEN v ELSE obj[x]]

\* the field names of the requests for which fieldName.startsWith('__') holds
MetaNames == {"__typename"}
StartsWithDoubleUnderscore(name) == name \in MetaNames

\* buildNestedSelect(selectionSet)
RECURSIVE buildNestedSelect(_)
RECURSIVE NestedSelections(_, _, _)
NestedSelections(selections, i, select) ==
    IF i > Len(selections) THEN select
    ELSE With(selections[i], LAMBDA selection :
            IF selection.kind # "Field" THEN NestedSelections(selections, i + 1, select)
            ELSE IF StartsWithDoubleUnderscore(selection.name)
            THEN NestedSelections(selections, i + 1, select)
            ELSE With(SetKey(select, selection.name,
                             IF selection.hasSelectionSet
                             THEN buildNestedSelect(selection.selections)
                             ELSE TrueValue),
                      LAMBDA select1 : NestedSelections(selections, i + 1, select1)))

buildNestedSelect_AlwaysSelect(selections) ==
    SelectObject(NestedSelections(selections, 1, <<>>))

buildNestedSelect_Flat(selections) == TrueValue

buildNestedSelect(selections) ==
    With(NestedSelections(selections, 1, <<>>), LAMBDA select :
        IF DOMAIN select # {} THEN SelectObject(select) ELSE TrueValue)

\* modelFields[fieldName] of the ${MODEL}_FIELDS constant
HasFieldInfo(modelFields, fieldName) ==
    \E i \in 1..Len(modelFields) : modelFields[i].name = fieldName
FieldInfo(modelFields, fieldName) ==
    modelFields[CHOOSE i \in 1..Len(modelFields) : modelFields[i].name = fieldName]

TopLevelValue_AlwaysTrue(fieldInfo, selection) == TrueValue

\* TopLevelValue that hands the arguments of a relation field on
TopLevelValue_WithArguments(fieldInfo, selection) ==
    IF fieldInfo.kind = "object"
    THEN IF selection.hasSelectionSet
         THEN IF Len(selection.arguments) > 0
              THEN [kind |-> "select", select |-> <<>>, arguments |-> selection.arguments]
              ELSE buildNestedSelect(selection.selections)
         ELSE TrueValue
    ELSE TrueValue

\* the value buildPrismaSelect gives a field it keeps
TopLevelValue(fieldInfo, selection) ==
    IF fieldInfo.kind = "object"
    THEN IF selection.hasSelectionSet
         THEN buildNestedSelect(selection.selections)
         ELSE TrueValue
    ELSE TrueValue

\* the test that makes buildPrismaSelect pass over a selection
TopLevelSkipped(modelFields, selection) ==
    \/ selection.kind # "Field"
    \/ StartsWithDoubleUnderscore(selection.name)
    \/ ~HasFieldInfo(modelFields, selection.name)

\* one pass of the for loop of buildPrismaSelect: select afterwards
TopLevelStep(modelFields, selection, select) ==
    IF TopLevelSkipped(modelFields, selection) THEN select
    ELSE SetKey(select, selection.name,
                TopLevelValue(FieldInfo(modelFields, selection.name), selection))

\* the for loop of buildPrismaSelect
RECURSIVE TopLevelSelections(_, _, _, _)
TopLevelSelections(modelFields, selections, i, select) ==
    IF i > Len(selections) THEN select
    ELSE With(TopLevelStep(modelFields, selections[i], select),
              LAMBDA select1 : TopLevelSelections(modelFields, selections, i + 1, select1))

\* return Object.keys(select).length > 0 ? { select } : {}
TopLevelResult(select) ==
    IF DOMAIN select # {} THEN SelectObject(select) ELSE EmptyObject

\* buildPrismaSelect(info, modelFields)
buildPrismaSelect(info, modelFields) ==
    IF ~info.hasSelectionSet THEN EmptyObject
    ELSE TopLevelResult(TopLevelSelections(modelFields, info.selections, 1, <<>>))

Merge_ArgsOnly(args, obj) == args

\* { ...args, ...prismaSelect }: prismaSelect is {} or { select }
Merge(args, obj) ==
    IF obj.kind = "select" THEN SetKey(args, "select", obj.select) ELSE args

\* an argument the caller did not give
Undefined == [kind |-> "undefined"]

OnlyWhere_All(args) == args

\* { where: args.where }
OnlyWhere(args) == SetKey(<<>>, "where", IF "where" \in DOMAIN args THEN args["where"] ELSE Undefined)

-----------------------------------------------------------------------------
(* The requests a generated resolver module is invoked with *)

\* the largest number of selections a request carries
MaxNodes == 4

\* the module that serves the requests: the User resolvers of the blog schema
ServedModel == "User"

\* the names a request selects: fields of User and of what they lead to, a
\* meta field, a name of no field
TopLeafNames == {"id", "role", "posts", "__typename", "bogus"}
TopInnerNames == {"posts", "id", "bogus"}
NestedLeafNames == {"title", "__typename"}
NestedInnerNames == {"author"}

\* the relation field of User that getType advertises with arguments, and the
\* arguments a request gives it: posts(where: ..., take: ...)
ArgumentNames == {"posts"}
RelationArguments == <<[name |-> "where", value |-> "w"], [name |-> "take", value |-> "n"]>>

LeafNodes(level) ==
    IF level = 1 THEN {FieldNode(n) : n \in TopLeafNames}
    ELSE {FieldNode(n) : n \in NestedLeafNames}
InnerNames(level) == IF level = 1 THEN TopInnerNames ELSE NestedInnerNames

\* the selection lists of exactly n selections, and the selections of exactly k
RECURSIVE SelectionLists(_, _)
RECURSIVE SelectionTrees(_, _)
SelectionLists(level, n) ==
    IF n = 0 THEN {<<>>}
    ELSE UNION {{<<t>> \o rest : t \in SelectionTrees(level, k),
                                 rest \in SelectionLists(level, n - k)} : k \in 1..n}
SelectionTrees(level, k) ==
    IF k = 1 THEN LeafNodes(level)
    ELSE {NestedNode(n, sels) : n \in InnerNames(level),
                                sels \in SelectionLists(level + 1, k - 1)}
         \cup {NestedNodeWith(n, RelationArguments, sels) :
                  n \in IF level = 1 THEN ArgumentNames ELSE {},
                  sels \in SelectionLists(level + 1, k - 1)}
         \cup {InlineFragment(sels) : sels \in SelectionLists(level, k - 1)}

\* info.fieldNodes[0].selectionSet, present or not
Infos ==
    {[hasSelectionSet |-> FALSE, selections |-> <<>>]} \cup
    {[hasSelectionSet |-> TRUE, selections |-> sels] :
        sels \in UNION {SelectionLists(1, n) : n \in 1..MaxNodes}}

\* the args of a caller
ArgValue(v) == [kind |-> "value", v |-> v]
CallerArgs ==
    {<<>>,
     SetKey(<<>>, "where", ArgValue("w")),
     SetKey(SetKey(<<>>, "where", ArgValue("w")), "take", ArgValue("n"))}

ServedOptions == Opts(FALSE, <<>>, FALSE, <<>>, <<>>, <<>>, FALSE, <<>>)

Requests(module) ==
    {[resolver |-> module.resolvers[k].name, args |-> a, info |-> i] :
        k \in {j \in 1..Len(module.resolvers) : module.resolvers[j].usesSelect},
        a \in CallerArgs, i \in Infos}
    \cup
    {[resolver |-> module.resolvers[k].name, args |-> a, info |-> NoRequest.info] :
        k \in {j \in 1..Len(module.resolvers) : ~module.resolvers[j].usesSelect},
        a \in CallerArgs}

\* what generateModelResolversAndTypeDef returned for the model
Generated(sch, opts, modelName) ==
    [state |-> "fulfilled", thrown |-> NoError,
     typeDef |-> TypeDefText(sch, opts, modelName),
     resolvers |-> getResolvers(sch, opts, modelName)]

generatorVars ==
    <<scenario, options, mapIndex, task, usedInputTypes, remainingInputTypes, index,
      remainingCount, writtenTypes, fileContent, error, output, sink>>

\* a resolver of the module is called with (_parent, args, context, info)
ServeInit ==
    /\ scenario = "blog"
    /\ options = ServedOptions
    /\ pc = "handler"
    /\ mapIndex = 1
    /\ task = <<Generated(BlogSchema, ServedOptions, ServedModel)>>
    /\ usedInputTypes = {}
    /\ remainingInputTypes = {}
    /\ index = 0
    /\ remainingCount = 0
    /\ writtenTypes = {}
    /\ fileContent = <<>>
    /\ error = NoError
    /\ output = NoOutput
    /\ sink = {}
    /\ served = Generated(BlogSchema, ServedOptions, ServedModel).resolvers
    /\ request \in Requests(served)
    /\ prismaSelect = NotTranslated
    /\ calls = <<>>
    /\ frames = <<>>

\* the resolver the request names
Resolver == served.resolvers[CHOOSE k \in 1..Len(served.resolvers) :
                                served.resolvers[k].name = request.resolver]

\* the arguments a handler hands to context.prisma
Forwarded(resolver, args, select) ==
    IF resolver.forwards = "where" THEN OnlyWhere(args) ELSE Merge(args, select)

\* const prismaSelect = buildPrismaSelect(info, ${MODEL}_FIELDS)
Translate ==
    /\ pc = "handler"
    /\ Resolver.usesSelect
    /\ prismaSelect' = buildPrismaSelect(request.info, served.fields)
    /\ pc' = "fetch"
    /\ UNCHANGED <<generatorVars, served, request, calls, frames>>

\* return context.prisma.${model}.findFirst / findMany({ ...args, ...prismaSelect })
Fetch ==
    /\ pc = "fetch"
    /\ calls' = Append(calls, [model |-> Resolver.model, call |-> Resolver.call,
                               args |-> Forwarded(Resolver, request.args, prismaSelect)])
    /\ pc' = "returned"
    /\ UNCHANGED <<generatorVars, served, request, prismaSelect, frames>>

\* return context.prisma.${model}.count({ where: args.where })
CountCall ==
    /\ pc = "handler"
    /\ ~Resolver.usesSelect
    /\ calls' = Append(calls, [model |-> Resolver.model, call |-> Resolver.call,
                               args |-> Forwarded(Resolver, request.args, prismaSelect)])
    /\ pc' = "returned"
    /\ UNCHANGED <<generatorVars, served, request, prismaSelect, frames>>

ServeNext == Translate \/ Fetch \/ CountCall

ServeSpec == ServeInit /\ [][ServeNext]_vars

\* the generator, and a module it generated at work
GenerateAndServeSpec == (Init \/ ServeInit) /\ [][Next \/ ServeNext]_vars

-----------------------------------------------------------------------------
(* getInputType called on the arguments a catalogue may hold *)

\* the largest number of candidate representations of an argument
MaxCandidates == 3

\* the candidate representations: every location, list or not, named Json or not
Candidates ==
    UNION {{Scalar(t), ScalarList(t), Obj(t), ObjList(t), EnumRef(t), EnumList(t)} :
              t \in {"Json", "T"}}

\* the inputTypes of an argument: one to MaxCandidates candidates
RECURSIVE CandidateLists(_)
CandidateLists(n) ==
    IF n = 0 THEN {<<>>}
    ELSE {Append(l, c) : l \in CandidateLists(n - 1), c \in Candidates}

\* getInputType has not returned
NoInputType == [type |-> "", location |-> "", isList |-> FALSE]

PickInit ==
    /\ scenario = "blog"
    /\ options = ServedOptions
    /\ pc = "getInputType"
    /\ mapIndex = 1
    /\ task = <<>>
    /\ usedInputTypes = {}
    /\ remainingInputTypes = {}
    /\ index = 0
    /\ remainingCount = 0
    /\ writtenTypes = {}
    /\ fileContent = <<>>
    /\ error = NoError
    /\ output = NoOutput
    /\ sink = {}
    /\ served = NoResolvers
    /\ request = NoRequest
    /\ prismaSelect = NotTranslated
    /\ calls = <<>>
    /\ \E n \in 1..MaxCandidates : \E its \in CandidateLists(n) :
          frames = <<[field |-> Arg("where", FALSE, its), at |-> "called",
                      result |-> NoInputType]>>

\* return field.inputTypes[index]
ReturnInputType ==
    /\ pc = "getInputType"
    /\ frames[1].at = "called"
    /\ frames' = [frames EXCEPT ![1].at = "returned",
                                ![1].result = getInputType(frames[1].field)]
    /\ UNCHANGED <<generatorVars, pc, served, request, prismaSelect, calls>>

PickSpec == PickInit /\ [][ReturnInputType]_vars

-----------------------------------------------------------------------------
(* Several requests translated side by side *)

\* the number of calls of buildPrismaSelect that are in progress together
Invocations == 2

\* the selections the host hands over: { id, posts { title } },
\* { role, __typename }, { posts { author { title } }, bogus }, { posts, id },
\* { posts { __typename }, role }, and a request without selection set
SideBySideInfos ==
    {[hasSelectionSet |-> FALSE, selections |-> <<>>]} \cup
    {[hasSelectionSet |-> TRUE, selections |-> sels] : sels \in
        { <<FieldNode("id"), NestedNode("posts", <<FieldNode("title")>>)>>,
          <<FieldNode("role"), FieldNode("__typename")>>,
          <<NestedNode("posts", <<NestedNode("author", <<FieldNode("title")>>)>>),
            FieldNode("bogus")>>,
          <<FieldNode("posts"), FieldNode("id")>>,
          <<NestedNode("posts", <<FieldNode("__typename")>>), FieldNode("role")>> }}

\* a call of buildPrismaSelect(info, modelFields): where it stands, the index
\* of the selection its loop is at, its local select, the value it returned
Frame(info) ==
    [info |-> info, at |-> "called", i |-> 0, select |-> <<>>, result |-> NotTranslated]

SelectOwner_First(inv) == 1

\* const select: any = {} is a local of the call: the frame whose select the
\* call inv reads and writes
SelectOwner(inv) == inv

SideBySideInit ==
    /\ scenario = "blog"
    /\ options = ServedOptions
    /\ pc = "serving"
    /\ mapIndex = 1
    /\ task = <<Generated(BlogSchema, ServedOptions, ServedModel)>>
    /\ usedInputTypes = {}
    /\ remainingInputTypes = {}
    /\ index = 0
    /\ remainingCount = 0
    /\ writtenTypes = {}
    /\ fileContent = <<>>
    /\ error = NoError
    /\ output = NoOutput
    /\ sink = {}
    /\ served = Generated(BlogSchema, ServedOptions, ServedModel).resolvers
    /\ request = NoRequest
    /\ prismaSelect = NotTranslated
    /\ calls = <<>>
    /\ frames \in [1..Invocations -> {Frame(info) : info \in SideBySideInfos}]

\* if (!info?.fieldNodes?.[0]?.selectionSet) return {}
EnterWithoutSelection(inv) ==
    /\ pc = "serving"
    /\ frames[inv].at = "called"
    /\ ~frames[inv].info.hasSelectionSet
    /\ frames' = [frames EXCEPT ![inv].at = "returned", ![inv].result = EmptyObject]
    /\ UNCHANGED <<generatorVars, pc, served, request, prismaSelect, calls>>

\* const selections = ...; const select: any = {}
EnterLoop(inv) ==
    /\ pc = "serving"
    /\ frames[inv].at = "called"
    /\ frames[inv].info.hasSelectionSet
    /\ frames' = [[frames EXCEPT ![inv].at = "loop", ![inv].i = 1]
                      EXCEPT ![SelectOwner(inv)].select = <<>>]
    /\ UNCHANGED <<generatorVars, pc, served, request, prismaSelect, calls>>

\* one pass of for (const selection of selections)
LoopPass(inv) ==
    /\ pc = "serving"
    /\ frames[inv].at = "loop"
    /\ frames[inv].i <= Len(frames[inv].info.selections)
    /\ frames' = [[frames EXCEPT ![inv].i = @ + 1]
                      EXCEPT ![SelectOwner(inv)].select =
                          TopLevelStep(served.fields,
                                       frames[inv].info.selections[frames[inv].i], @)]
    /\ UNCHANGED <<generatorVars, pc, served, request, prismaSelect, calls>>

\* return Object.keys(select).length > 0 ? { select } : {}
ReturnSelect(inv) ==
    /\ pc = "serving"
    /\ frames[inv].at = "loop"
    /\ frames[inv].i > Len(frames[inv].info.selections)
    /\ frames' = [frames EXCEPT ![inv].at = "returned",
                                ![inv].result =
                                    TopLevelResult(frames[SelectOwner(inv)].select)]
    /\ UNCHANGED <<generatorVars, pc, served, request, prismaSelect, calls>>

SideBySideNext ==
    \E inv \in 1..Invocations :
        \/ EnterWithoutSelection(inv)
        \/ EnterLoop(inv)
        \/ LoopPass(inv)
        \/ ReturnSelect(inv)

SideBySideSpec == SideBySideInit /\ [][SideBySideNext]_vars

-----------------------------------------------------------------------------
(* What the properties speak about *)

MaxRounds == MaxIndex + 1

\* the blocks of fileContent of one kind, and their names
BlocksOf(content, kind) == {i \in 1..Len(content) : content[i].kind = kind}
EmittedInputs == {fileContent[i].name : i \in BlocksOf(fileContent, "input")}
EmittedEnums == {fileContent[i].name : i \in BlocksOf(fileContent, "enum")}
EmittedFields == UNION {ToSet(fileContent[i].fields) : i \in BlocksOf(fileContent, "input")}

\* the names of the catalogue's input types
CatalogueNames(sch) == {InputObjectTypes(sch)[i].name : i \in 1..Len(InputObjectTypes(sch))}

\* the catalogue entries of a name
Entries(sch, n) == {t \in ToSet(InputObjectTypes(sch)) : t.name = n}

\* the fields of an input type that the exclusion rules leave
SurvivingFields(sch, opts, t) == {f \in ToSet(t.fields) : ~FieldDropped(sch, opts, f)}

\* the input types one reference hop from n: targets of its surviving fields
Hop(sch, opts, n) ==
    {getInputType(f).type :
        f \in {g \in UNION {SurvivingFields(sch, opts, t) : t \in Entries(sch, n)} :
                 getInputType(g).location = "inputObjectTypes"}}

\* the names within k hops of the set S
RECURSIVE Within(_, _, _, _)
Within(sch, opts, S, k) ==
    IF k = 0 THEN S
    ELSE Within(sch, opts, S \cup UNION {Hop(sch, opts, n) : n \in S}, k - 1)

\* the closure of S under Hop
RECURSIVE Closure(_, _, _)
Closure(sch, opts, S) ==
    With(S \cup UNION {Hop(sch, opts, n) : n \in S}, LAMBDA S2 :
        IF S2 = S THEN S ELSE Closure(sch, opts, S2))

\* usedInputTypes as the per-model tasks leave it
Seeds == SeedTypes(Schema, options)

ResolverCompleted == pc \in {"enums", "done"}
ResolverStarted ==
    \/ pc \in {"resolve", "enums", "done"}
    \/ pc = "error" /\ error.kind \in {"empty", "tooMany"}

-----------------------------------------------------------------------------
(* C1 *)

\* C1: whatever the catalogue's cycles and fan-in, no two blocks of fileContent
\* carry the same name, and every name marked written has exactly one block.
C1_EmittedOnce ==
    /\ \A i, j \in 1..Len(fileContent) :
          fileContent[i].name = fileContent[j].name => i = j
    /\ \A n \in writtenTypes :
          Cardinality({i \in 1..Len(fileContent) : fileContent[i].name = n}) = 1

\* a later round is handed a set that holds an input type already written
\* (a cycle led back to it), and the run then completes
C1_Witness ==
    /\ pc = "done"
    /\ index >= 3
    /\ remainingInputTypes \cap writtenTypes # {}
    /\ EmittedEnums # {}

-----------------------------------------------------------------------------
(* C2 *)

\* C2: once the loop has ended without an error, the input types emitted are
\* exactly the catalogue input types in the closure of the seeds under the
\* surviving fields.
C2_EmittedIsClosure ==
    ResolverCompleted =>
        EmittedInputs = Closure(Schema, options, Seeds) \cap CatalogueNames(Schema)

\* a completed run of three rounds or more that emits some input types of the
\* catalogue and leaves others out
C2_Witness ==
    /\ pc = "done"
    /\ index >= 3
    /\ "PostWhereInput" \in EmittedInputs
    /\ "PostWhereUniqueInput" \notin EmittedInputs
    /\ ExcludeInputFields(options) # {}

-----------------------------------------------------------------------------
(* C3 *)

\* C3: no emitted input type has a field named in excludeInputFields, no
\* emitted enum has such a value, and every emitted input type has a field.
C3_ExclusionsHonoured ==
    \A i \in 1..Len(fileContent) :
        /\ fileContent[i].kind = "input" => Len(fileContent[i].fields) > 0
        /\ \A f \in ToSet(fileContent[i].fields) : f.name \notin ExcludeInputFields(options)
        /\ \A v \in ToSet(fileContent[i].values) : v \notin ExcludeInputFields(options)

\* a completed run that emitted an input type and an enum which both list an
\* excluded name in the catalogue
C3_Witness ==
    /\ pc = "done"
    /\ "tenantId" \in ExcludeInputFields(options)
    /\ "UserWhereInput" \in EmittedInputs
    /\ "UserScalarFieldEnum" \in EmittedEnums

-----------------------------------------------------------------------------
(* C4 *)

\* the input types something emitted refers to: the seeds and the targets of
\* the emitted fields
ReferencedInputs ==
    (Seeds \cup {f.type : f \in {g \in EmittedFields : g.location = "inputObjectTypes"}})
        \cap CatalogueNames(Schema)

HasSurvivingField(sch, opts, n) ==
    \E t \in Entries(sch, n) : SurvivingFields(sch, opts, t) # {}

\* C4: a run never completes while a referenced input type is left without
\* fields, and the error for an empty type names a used type that the
\* exclusions left without fields.
C4_EmptyReferencedAborts ==
    /\ pc = "done" => \A n \in ReferencedInputs : HasSurvivingField(Schema, options, n)
    /\ error.kind = "empty" =>
          /\ error.name \in usedInputTypes
          /\ ~HasSurvivingField(Schema, options, error.name)

\* the run aborted on an input type that the exclusions emptied
C4_Witness ==
    /\ pc = "error"
    /\ error.kind = "empty"
    /\ index >= 1

-----------------------------------------------------------------------------
(* C5 *)

\* some catalogue input type of this name, in either namespace, has a
\* required field whose name is excluded
RequiresExcludedField(sch, opts, n) ==
    \E t \in Entries(sch, n) :
        \E f \in ToSet(t.fields) : f.isRequired /\ IsExcludedInput(opts, f.name)

\* C5: no emitted field has as its target an input type of the catalogue, of
\* either namespace, that has a required field named in excludeInputFields.
C5_NoFieldToUnsatisfiableType ==
    \A f \in EmittedFields : ~RequiresExcludedField(Schema, options, f.type)

-----------------------------------------------------------------------------
(* C6 *)

\* C6: in a completed run every emitted field's target is a scalar, an emitted
\* enum or an emitted input type.
C6_NoDanglingReference ==
    pc = "done" =>
        \A f \in EmittedFields :
            \/ f.location = "scalar"
            \/ f.type \in EmittedEnums
            \/ f.type \in EmittedInputs

\* a completed run whose emitted fields refer to an enum, to an input type
\* found in a later round, and back to an input type written before
C6_Witness ==
    /\ pc = "done"
    /\ \E f \in EmittedFields : f.location = "enumTypes" /\ f.type = "QueryMode"
    /\ \E f \in EmittedFields : f.type = "NestedIntFilter"
    /\ \E f \in EmittedFields : f.type = "UserWhereInput"

-----------------------------------------------------------------------------
(* C7 *)

Terminated == pc \in {"done", "error"}

\* C7: the loop never completes more than 6 rounds, a run that returns has
\* reached the fixed point (its last round found no new type), and every
\* resolver invocation ends: generate returns or rejects.
C7_Terminates ==
    /\ [](index <= MaxRounds)
    /\ [](pc = "done" => remainingCount = 0)
    /\ (pc = "resolve" ~> Terminated)

\* a run that needed all 6 rounds and returned
C7_Witness ==
    /\ pc = "done"
    /\ index = MaxRounds

-----------------------------------------------------------------------------
(* C8 *)

\* some input type in the closure of the seeds is more than 5 hops away
BeyondFiveHops ==
    Closure(Schema, options, Seeds) # Within(Schema, options, Seeds, MaxIndex)

C8_State ==
    /\ error.kind = "tooMany" =>
          /\ index = MaxRounds
          /\ remainingCount > 0
          /\ BeyondFiveHops
    /\ (index = MaxRounds /\ remainingCount > 0) =>
          /\ pc \in {"resolve", "error"}
          /\ pc = "error" => error.kind = "tooMany"

C8_Step ==
    (pc = "resolve" /\ index = MaxRounds) =>
        /\ pc' = "error"
        /\ error'.kind = "tooMany"
        /\ UNCHANGED <<usedInputTypes, writtenTypes, fileContent, index>>

\* C8: the iteration-bound error is raised exactly when the sixth round still
\* found an input type not yet used; it needs a reachable type beyond 5 hops
\* of the seeds; and the step after such a sixth round is the throw, with no
\* type processed.
C8_IterationBound == []C8_State /\ [][C8_Step]_vars

\* the run aborted with the iteration-bound error
C8_Witness ==
    /\ pc = "error"
    /\ error.kind = "tooMany"
    /\ Cardinality(EmittedInputs) >= MaxRounds

-----------------------------------------------------------------------------
(* C9 *)

\* the models generate hands to generateModelResolversAndTypeDef
Included == {i \in 1..Len(TheModels) : ~IsExcludedModel(options, TheModels[i])}

\* the argument type names model i adds to usedInputTypes
Contribution(i) == getTypeDef(Schema, options, TheModels[i], {}).used

AllContributed ==
    /\ MapComplete(mapIndex, TheModels)
    /\ \A i \in Included :
          /\ task[i].state = "fulfilled"
          /\ Contribution(i) \subseteq usedInputTypes

C9_State ==
    /\ ResolverStarted => AllContributed
    /\ (pc = "resolve" /\ index = 0) =>
          usedInputTypes = UNION {Contribution(i) : i \in Included}

C9_Step ==
    /\ ResolverStarted => (mapIndex' = mapIndex /\ task' = task)
    /\ usedInputTypes' # usedInputTypes => pc \in {"map", "resolve"}

\* C9: whenever the resolver has started, the map has visited every model and
\* every included model's promise is fulfilled with all its argument type
\* names in usedInputTypes; the first round starts from exactly the union of
\* the models' contributions; once the resolver has started no model's task
\* takes a step, and usedInputTypes changes only in the map and in the rounds.
C9_ResolverAfterAllModels == []C9_State /\ [][C9_Step]_vars

\* the first round is about to start, two models have contributed and neither
\* contribution contains the other
C9_Witness ==
    /\ pc = "resolve"
    /\ index = 0
    /\ Cardinality(Included) = 2
    /\ \A i \in Included : Contribution(i) # {}
    /\ \E i, j \in Included : ~(Contribution(i) \subseteq Contribution(j))

-----------------------------------------------------------------------------
(* C10 *)

\* the excludeOutputFields lists a second run on the same document may be given
OtherOutputExclusions == {o.excludeOutputFields : o \in OptionsOf(scenario)}

\* the second run: same document, same options but for excludeOutputFields
OtherRun(eo) == generate(Schema, [options EXCEPT !.excludeOutputFields = eo])

\* the names of the output fields of the included models that carry arguments
ArgCarryingFields ==
    UNION {{ModelOutputType(Schema, TheModels[i]).fields[j].name :
              j \in {k \in 1..Len(ModelOutputType(Schema, TheModels[i]).fields) :
                       Len(ModelOutputType(Schema, TheModels[i]).fields[k].args) > 0}} :
           i \in Included}

\* the two lists exclude the same argument-carrying output fields
SameArgCarrying(eo1, eo2) ==
    \A n \in ArgCarryingFields : (n \in ToSet(eo1)) <=> (n \in ToSet(eo2))

\* what this run has emitted into the shared input artifact
Artifact == IF pc = "done" THEN ToSet(fileContent) ELSE {}

\* C10 as stated: two runs that return and differ only in excludeOutputFields
\* emit the same input types and enums with the same fields.
C10_Original ==
    pc = "done" =>
        \A eo \in OtherOutputExclusions :
            \E r \in {OtherRun(eo)} :
                r.thrown.kind = "none" => ToSet(r.content) = Artifact

\* C10 amended: of two runs that differ only in excludeOutputFields, (a) if
\* they exclude the same argument-carrying output fields, they end alike: the
\* same Error, or the same input types and enums with the same fields; (b) if
\* both return, every input type or enum both emit has the same fields and
\* values in both.
C10_OutputExclusionIndependence ==
    Terminated =>
        \A eo \in OtherOutputExclusions :
            \E r \in {OtherRun(eo)} :
                /\ SameArgCarrying(eo, options.excludeOutputFields) =>
                      /\ r.thrown = error
                      /\ r.thrown.kind = "none" => ToSet(r.content) = Artifact
                /\ (pc = "done" /\ r.thrown.kind = "none") =>
                      \A b \in ToSet(r.content) : \A c \in Artifact :
                          (b.kind = c.kind /\ b.name = c.name) => b = c

\* a run that excludes the output field tenantId and still emits input types
\* that carry tenantId
C10_Witness ==
    /\ pc = "done"
    /\ scenario = "blog"
    /\ options.excludeOutputFields = <<"tenantId">>
    /\ \E f \in EmittedFields : f.name = "tenantId"

-----------------------------------------------------------------------------
(* C11 *)

\* the excludeInputFields lists a second run on the same document may be given
OtherInputExclusions == {o.excludeInputFields : o \in OptionsOf(scenario)}

\* the models generate hands on and the typeDef of each, as a function of the
\* document and the options
TypeDefsOf(sch, opts) ==
    With(FilterSeq(Models(sch, opts), LAMBDA m : ~IsExcludedModel(opts, m), 1),
         LAMBDA kept :
            [k \in 1..Len(kept) |->
                [modelName |-> kept[k], typeDef |-> TypeDefText(sch, opts, kept[k])]])

\* the model names and typeDefs this run returned
ReturnedTypeDefs ==
    [k \in 1..Len(output.models) |->
        [modelName |-> output.models[k].modelName, typeDef |-> output.models[k].typeDef]]

\* C11: when a run returns, every run on the same document that differs only
\* in excludeInputFields and also returns has the same models with the same
\* output field lists and the same operation signatures.
C11_InputExclusionIndependence ==
    pc = "done" =>
        \A ei \in OtherInputExclusions :
            \E o \in {[options EXCEPT !.excludeInputFields = ei]} :
                generate(Schema, o).thrown.kind = "none" =>
                    TypeDefsOf(Schema, o) = ReturnedTypeDefs

\* a run that excludes the input field email, returns, and has email among
\* the output fields of a model
C11_Witness ==
    /\ pc = "done"
    /\ "email" \in ToSet(options.excludeInputFields)
    /\ \E k \in 1..Len(output.models) :
          \E j \in 1..Len(output.models[k].typeDef.type.fields) :
              output.models[k].typeDef.type.fields[j].name = "email"

-----------------------------------------------------------------------------
(* C12 *)

\* Tenant and the names the catalogue derives from it
TenantNames ==
    {"Tenant", "TenantWhereInput", "TenantOrderByInput", "TenantWhereUniqueInput",
     "TenantScalarRelationFilter", "TenantScalarFieldEnum", "TenantCountOutputType"}

\* the type names a typeDef mentions: the type it declares, the types of its
\* fields and of their arguments, the types of the signatures and of their arguments
TypeDefMentions(td) ==
    {td.type.name}
    \cup {td.type.fields[j].type : j \in 1..Len(td.type.fields)}
    \cup UNION {{td.type.fields[j].args[a].type : a \in 1..Len(td.type.fields[j].args)} :
                  j \in 1..Len(td.type.fields)}
    \cup {td.queries[q].type : q \in 1..Len(td.queries)}
    \cup UNION {{td.queries[q].args[a].type : a \in 1..Len(td.queries[q].args)} :
                  q \in 1..Len(td.queries)}

\* the type names the blocks of inputTypes mention: the input types and enums
\* declared and the types of the fields
InputTypesMentions(content) ==
    {content[i].name : i \in 1..Len(content)}
    \cup UNION {{content[i].fields[j].type : j \in 1..Len(content[i].fields)} :
                  i \in 1..Len(content)}

\* everything the returned artifacts mention
OutputMentions ==
    InputTypesMentions(output.inputTypes)
    \cup UNION {TypeDefMentions(output.models[k].typeDef) : k \in 1..Len(output.models)}
    \cup {output.models[k].modelName : k \in 1..Len(output.models)}
    \cup ToSet(output.indexFile)

\* the configuration of the scenario: excludeModels = [Tenant],
\* excludeInputFields = [tenantId], excludeOutputFields = [tenantId]
TenantScenario ==
    /\ scenario = "tenant"
    /\ ~options.hasModels
    /\ options.hasExcludeModels /\ options.excludeModels = <<"Tenant">>
    /\ options.excludeInputFields = <<"tenantId">>
    /\ options.excludeOutputFields = <<"tenantId">>

\* C12: in the Tenant scenario a run that returns has generated exactly User
\* and Post, and no block it emitted (output type, signature, input type,
\* enum) mentions Tenant or a type derived from Tenant.
C12_NoMentionOfTenant ==
    (pc = "done" /\ TenantScenario) =>
        /\ {output.models[k].modelName : k \in 1..Len(output.models)} = {"User", "Post"}
        /\ OutputMentions \cap TenantNames = {}

-----------------------------------------------------------------------------
(* C13 *)

\* the allow-list intersected with the catalogue (the whole catalogue when no
\* allow-list is given) minus the deny-list, in catalogue order
ExpectedModels ==
    FilterSeq(Schema.models,
              LAMBDA m : /\ options.hasModels => m \in ToSet(options.models)
                         /\ ~(options.hasExcludeModels /\ m \in ToSet(options.excludeModels)),
              1)

\* C13: the models a run returns, and the models its index file names, are
\* the allowed models that are not denied, in catalogue order; and no task
\* ever runs for a denied model.
C13_IncludedModels ==
    /\ pc = "done" =>
          /\ [k \in 1..Len(output.models) |-> output.models[k].modelName] = ExpectedModels
          /\ output.indexFile = ExpectedModels
    /\ \A i \in DOMAIN task :
          (options.hasExcludeModels /\ TheModels[i] \in ToSet(options.excludeModels)) =>
              task[i].state \in {"pending", "skipped"}

\* a run that returns with a model on both lists
C13_Witness ==
    /\ pc = "done"
    /\ options.hasModels /\ options.hasExcludeModels
    /\ ToSet(options.models) \cap ToSet(options.excludeModels) # {}
    /\ Len(output.models) > 0

-----------------------------------------------------------------------------
(* C14 *)

\* the models whose typeDef has been built
TypeDefBuilt == {i \in DOMAIN task : task[i].state \in {"formatting", "fulfilled"}}

\* the catalogue's entry for an operation kind of a model; count has no entry
\* of its own, its where argument is the one of the fetch-many entry
HasOperationEntry(sch, query, modelName) ==
    HasQueryField(sch, IF query = "count" THEN "findMany" ELSE query, modelName)

FirstFailing(sch, opts, modelName) ==
    CHOOSE k \in 1..Len(Queries(opts)) :
        /\ QueryTypeDef(sch, modelName, Queries(opts)[k]).thrown.kind # "none"
        /\ \A j \in 1..(k - 1) : QueryTypeDef(sch, modelName, Queries(opts)[j]).thrown.kind = "none"

-----------------------------------------------------------------------------
(* C15 *)

\* the names under Query that the resolvers of a returned model define
ResolverNames(m) == {m.resolvers.resolvers[q].name : q \in 1..Len(m.resolvers.resolvers)}

\* C15: a run that returns has no two models that derive the same singular or
\* plural name, and no two models whose resolvers define the same operation.
C15_NoNameCollision ==
    pc = "done" =>
        \A k1, k2 \in 1..Len(output.models) :
            k1 # k2 =>
                /\ singularName(output.models[k1].modelName)
                      # singularName(output.models[k2].modelName)
                /\ pluralName(output.models[k1].modelName)
                      # pluralName(output.models[k2].modelName)
                /\ ResolverNames(output.models[k1]) \cap ResolverNames(output.models[k2]) = {}

-----------------------------------------------------------------------------
(* C16 *)

\* writeGenerateOutput is running or has returned
Writing == pc \in {"writeModels", "writeIndex", "written"}

C16_State ==
    /\ pc = "error" => sink = {}
    /\ sink # {} =>
          /\ Writing
          /\ error = NoError
          /\ output.inputTypes = fileContent
          /\ output.models = GeneratedModels(task)
          /\ \A i \in DOMAIN task : task[i].state \in {"skipped", "fulfilled"}
    /\ \A f \in sink :
          f.dir = "." \/ \E k \in 1..Len(output.models) : output.models[k].modelName = f.dir

C16_Step ==
    /\ sink' # sink => (Writing /\ output' = output /\ task' = task /\ fileContent' = fileContent)
    /\ pc = "error" => pc' = "error"

\* C16: a run whose generate rejects never writes a file and stays rejected;
\* whenever a file is written, generate has returned, every model's artifacts,
\* the input types and the index file are in the returned output, and they do
\* not change while the files are written.
C16_WritesOnlyAfterGenerate == []C16_State /\ [][C16_Step]_vars

\* generate has rejected in the resolver after the artifacts of a model were built
C16_Witness ==
    /\ pc = "error"
    /\ error.kind \in {"empty", "tooMany"}
    /\ \E i \in DOMAIN task : task[i].state = "fulfilled" /\ task[i].resolvers # NoResolvers

-----------------------------------------------------------------------------
(* C17 *)

\* the signature of the count operation among the signatures of a typeDef
CountSignatures(typeDef) ==
    {typeDef.queries[k] : k \in {j \in 1..Len(typeDef.queries) : typeDef.queries[j].query = "count"}}

\* the arguments the model's findMany entry of the catalogue declares
DeclaredArgNames(sch, modelName) ==
    IF HasQueryField(sch, "findMany", modelName)
    THEN {QueryArgs(sch, "findMany", modelName)[j].name :
             j \in 1..Len(QueryArgs(sch, "findMany", modelName))}
    ELSE {}

\* what the caller gave as where
GivenWhere(args) == IF "where" \in DOMAIN args THEN args["where"] ELSE Undefined

\* C17: in every typeDef the generator builds, the signature of the count
\* operation has no argument other than where, whatever the catalogue declares
\* for the model; and every count call a generated handler makes carries
\* exactly the key where, with the caller's where as its value.
C17_CountKeepsOnlyWhere ==
    /\ \A i \in DOMAIN task :
          task[i].typeDef # NoTypeDef =>
              \A sig \in CountSignatures(task[i].typeDef) :
                  /\ Len(sig.args) <= 1
                  /\ \A j \in 1..Len(sig.args) : sig.args[j].name = "where"
    /\ \A c \in 1..Len(calls) :
          calls[c].call = "count" =>
              /\ DOMAIN calls[c].args = {"where"}
              /\ calls[c].args["where"] = GivenWhere(request.args)

\* a count handler was called with where and take and has made its call, and
\* the module's count signature has one argument although the catalogue
\* declares orderBy, cursor, take, skip and distinct for the model
C17_Witness ==
    /\ pc = "returned"
    /\ Len(calls) = 1
    /\ calls[1].call = "count"
    /\ {"where", "take"} \subseteq DOMAIN request.args
    /\ {"orderBy", "cursor", "take", "skip", "distinct"}
          \subseteq DeclaredArgNames(Schema, calls[1].model)
    /\ \E sig \in CountSignatures(task[1].typeDef) : Len(sig.args) = 1

-----------------------------------------------------------------------------
(* C18 *)

\* the handler of a fetch-one or fetch-many resolver is running or has returned
FetchHandler == Resolver.call \in {"findFirst", "findMany"}

\* the caller's arguments merged with the projection: every key of the caller
\* but select keeps its value, and select is the projection's when it has one
MergedWith(args, projection, merged) ==
    /\ DOMAIN merged = DOMAIN args \cup (IF projection.kind = "select" THEN {"select"} ELSE {})
    /\ \A k \in DOMAIN args \ {"select"} : merged[k] = args[k]
    /\ projection.kind = "select" => merged["select"] = projection.select

C18_State ==
    FetchHandler =>
        /\ pc = "handler" => prismaSelect = NotTranslated /\ calls = <<>>
        /\ pc = "fetch" =>
              /\ prismaSelect = buildPrismaSelect(request.info, served.fields)
              /\ calls = <<>>
        /\ pc = "returned" =>
              /\ prismaSelect = buildPrismaSelect(request.info, served.fields)
              /\ Len(calls) = 1
              /\ calls[1].call = Resolver.call
              /\ calls[1].model = Resolver.model
              /\ MergedWith(request.args, prismaSelect, calls[1].args)

C18_Step ==
    /\ prismaSelect' # prismaSelect => (pc = "handler" /\ calls' = calls /\ calls = <<>>)
    /\ calls' # calls => (prismaSelect' = prismaSelect /\ Len(calls') = Len(calls) + 1)
    /\ (FetchHandler /\ calls' # calls) => prismaSelect # NotTranslated

\* C18: a fetch-one or fetch-many handler translates the selection of the
\* request before it calls the data source, the step that translates makes no
\* call, and the handler returns after exactly one call, of its own operation
\* on its own model, whose arguments are the caller's merged with the projection.
C18_TranslateThenOneFetch == []C18_State /\ [][C18_Step]_vars

\* a findMany handler has returned: the caller gave where and take, the
\* request selected fields, and the one call carries where, take and select
C18_Witness ==
    /\ pc = "returned"
    /\ Resolver.call = "findMany"
    /\ DOMAIN request.args = {"where", "take"}
    /\ prismaSelect.kind = "select"
    /\ Len(calls) = 1
    /\ DOMAIN calls[1].args = {"where", "take", "select"}

-----------------------------------------------------------------------------
(* C19 *)

\* the handler has translated the request
Translated == FetchHandler /\ pc \in {"fetch", "returned"}

\* the top-level selections of the request, and the keys and values of the
\* projection ({} has none)
TopSelections == request.info.selections
Projection == IF prismaSelect.kind = "select" THEN prismaSelect.select ELSE <<>>

\* the kinds the datamodel gives the fields of the served model
TableNames == {served.fields[i].name : i \in 1..Len(served.fields)}
KindOf(name) == (CHOOSE f \in ToSet(served.fields) : f.name = name).kind

\* no later top-level selection has the name of the i-th
LastOfItsName(i) ==
    \A j \in (i + 1)..Len(TopSelections) :
        ~(TopSelections[j].kind = "Field" /\ TopSelections[j].name = TopSelections[i].name)

\* C19: after translating, for every top-level field of the request: a field
\* whose name starts with a double underscore or is not in the model's field
\* table is no key of the projection; any other field is a key, and (a later
\* selection of the same name replacing an earlier one) its value is true when
\* its kind is scalar or enum, true when it is a relation selected without a
\* nested selection, and the translation of its nested selection when it is a
\* relation selected with one.
C19_TopLevelTranslation ==
    Translated =>
        \A i \in 1..Len(TopSelections) :
            TopSelections[i].kind = "Field" =>
                IF \/ TopSelections[i].name \in MetaNames
                   \/ TopSelections[i].name \notin TableNames
                THEN TopSelections[i].name \notin DOMAIN Projection
                ELSE /\ TopSelections[i].name \in DOMAIN Projection
                     /\ LastOfItsName(i) =>
                           Projection[TopSelections[i].name] =
                              IF KindOf(TopSelections[i].name) \in {"scalar", "enum"}
                              THEN TrueValue
                              ELSE IF ~TopSelections[i].hasSelectionSet
                              THEN TrueValue
                              ELSE buildNestedSelect(TopSelections[i].selections)

\* the request selected a name of no field, the enum role and the relation
\* posts with a nested selection, and was translated
C19_Witness ==
    /\ Translated
    /\ \E i \in 1..Len(TopSelections) : TopSelections[i].name = "bogus"
    /\ \E i \in 1..Len(TopSelections) :
          TopSelections[i].name = "posts" /\ TopSelections[i].hasSelectionSet
    /\ DOMAIN Projection = {"role", "posts"}
    /\ Projection["role"] = TrueValue
    /\ Projection["posts"].kind = "select"

-----------------------------------------------------------------------------
(* C20 *)

Max(S) == CHOOSE x \in S : \A y \in S : y <= x

\* the nesting depth of a list of selections: 0 for none
RECURSIVE RequestDepth(_)
RequestDepth(selections) ==
    IF Len(selections) = 0 THEN 0
    ELSE 1 + Max({IF selections[i].hasSelectionSet
                  THEN RequestDepth(selections[i].selections) ELSE 0 :
                     i \in 1..Len(selections)})

\* the nesting depth of the keys of a projection: 0 for none
RECURSIVE ProjectionDepth(_)
ProjectionDepth(select) ==
    IF DOMAIN select = {} THEN 0
    ELSE 1 + Max({IF select[k].kind = "select"
                  THEN ProjectionDepth(select[k].select) ELSE 0 : k \in DOMAIN select})

\* selections of fields only, each name once
FieldsOnce(selections) ==
    /\ \A i \in 1..Len(selections) :
          selections[i].kind = "Field" /\ selections[i].name \notin MetaNames
    /\ \A i, j \in 1..Len(selections) :
          selections[i].name = selections[j].name => i = j

\* below the top level: relation fields with their sub-fields and scalar leaves
RECURSIVE PlainNested(_)
PlainNested(selections) ==
    /\ FieldsOnce(selections)
    /\ \A i \in 1..Len(selections) :
          selections[i].hasSelectionSet => PlainNested(selections[i].selections)

\* a request of relation and scalar fields of the served model: the relations
\* selected with sub-fields, the scalars and enums without
PlainRequest ==
    /\ FieldsOnce(TopSelections)
    /\ \A i \in 1..Len(TopSelections) :
          /\ TopSelections[i].name \in TableNames
          /\ TopSelections[i].hasSelectionSet <=> KindOf(TopSelections[i].name) = "object"
          /\ TopSelections[i].hasSelectionSet => PlainNested(TopSelections[i].selections)

\* the keys of select are the selected fields; a leaf is true and a field with
\* sub-fields is a nested select that mirrors them
RECURSIVE Mirrors(_, _)
Mirrors(selections, select) ==
    /\ DOMAIN select = {selections[i].name : i \in 1..Len(selections)}
    /\ \A i \in 1..Len(selections) :
          IF selections[i].hasSelectionSet
          THEN /\ select[selections[i].name].kind = "select"
               /\ Mirrors(selections[i].selections, select[selections[i].name].select)
          ELSE select[selections[i].name] = TrueValue

\* C20: a request made of scalar fields and of relation fields selected with
\* their sub-fields, each name once among its siblings, nested to any depth
\* (0 for a request without selection), is translated to a projection of the
\* same depth in which every scalar leaf is true and every relation is a nested
\* select of exactly its selected sub-fields.
C20_ProjectionMirrorsNesting ==
    (Translated /\ PlainRequest) =>
        /\ ProjectionDepth(Projection) = RequestDepth(TopSelections)
        /\ Mirrors(TopSelections, Projection)
        /\ ~request.info.hasSelectionSet => prismaSelect = EmptyObject

\* { id, posts { author { title } } } was translated: three levels
C20_Witness ==
    /\ Translated
    /\ PlainRequest
    /\ RequestDepth(TopSelections) = 3
    /\ DOMAIN Projection = {"id", "posts"}
    /\ Projection["posts"].select["author"].select["title"] = TrueValue

-----------------------------------------------------------------------------
(* C21 *)

\* no { select: {} } in a value of a projection, at any depth
RECURSIVE NoEmptySelector(_)
NoEmptySelector(value) ==
    value.kind = "select" =>
        /\ DOMAIN value.select # {}
        /\ \A k \in DOMAIN value.select : NoEmptySelector(value.select[k])

\* no selection of the list survives in buildNestedSelect
NoneSurvives(selections) ==
    \A i \in 1..Len(selections) :
        selections[i].kind # "Field" \/ selections[i].name \in MetaNames

\* C21: the projection of a translated request holds no select without
\* entries at any depth, and a relation whose nested selection leaves no
\* sub-field (only meta fields) has the value true.
C21_NoEmptySelector ==
    Translated =>
        /\ NoEmptySelector(prismaSelect)
        /\ \A i \in 1..Len(TopSelections) :
              ( /\ TopSelections[i].kind = "Field"
                /\ TopSelections[i].name \in TableNames
                /\ KindOf(TopSelections[i].name) = "object"
                /\ TopSelections[i].hasSelectionSet
                /\ NoneSurvives(TopSelections[i].selections)
                /\ LastOfItsName(i) )
              => Projection[TopSelections[i].name] = TrueValue

\* { id, posts { __typename } } was translated: posts is true
C21_Witness ==
    /\ Translated
    /\ DOMAIN Projection = {"id", "posts"}
    /\ \E i \in 1..Len(TopSelections) :
          /\ TopSelections[i].name = "posts"
          /\ TopSelections[i].hasSelectionSet
          /\ NoneSurvives(TopSelections[i].selections)
          /\ Projection["posts"] = TrueValue

-----------------------------------------------------------------------------
(* C22 *)

\* a step of one call changes the frame of no other call
OwnFrameOnly ==
    \A a, b \in 1..Invocations :
        (a # b /\ frames'[a] # frames[a]) => frames'[b] = frames[b]

\* C22: when several calls of the translator run interleaved pass by pass,
\* every call that has returned has returned the projection the translator
\* gives its request alone, and no step of a call changes what another call
\* holds.
C22_Reentrant ==
    /\ [](\A inv \in DOMAIN frames :
             frames[inv].at = "returned" =>
                 frames[inv].result = buildPrismaSelect(frames[inv].info, served.fields))
    /\ [][OwnFrameOnly]_vars

\* the first call is inside its loop with a key in its select while the
\* second has already returned a different, non-empty projection
C22_Witness ==
    /\ Len(frames) >= 2
    /\ frames[1].at = "loop"
    /\ frames[1].i = 2
    /\ DOMAIN frames[1].select # {}
    /\ frames[2].at = "returned"
    /\ frames[2].result.kind = "select"
    /\ frames[2].result.select # frames[1].select
    /\ frames[2].info # frames[1].info

-----------------------------------------------------------------------------
(* C23 *)

\* the database name a key of the {key, value} shape may be mapped to
MappedName(key) == key \o "_db"

\* the same logical enum in the other wire shape: the keys of the pairs as a
\* flat list, or every string of the flat list as the key of a pair
OtherShape(item) ==
    IF item.hasData
    THEN [name |-> item.name, hasData |-> FALSE,
          values |-> [i \in 1..Len(item.data) |-> item.data[i].key], data |-> <<>>]
    ELSE [name |-> item.name, hasData |-> TRUE, values |-> <<>>,
          data |-> [i \in 1..Len(item.values) |->
                      [key |-> item.values[i], value |-> MappedName(item.values[i])]]]

\* the catalogue of this run with every enum in the other wire shape
OtherWire(sch) ==
    [sch EXCEPT !.enumPrisma = [i \in 1..Len(@) |-> OtherShape(@[i])],
                !.enumModel = [i \in 1..Len(@) |-> OtherShape(@[i])]]

\* the enum blocks of an artifact, in order
EnumBlocks(content) == FilterSeq(content, LAMBDA b : b.kind = "enum", 1)

\* C23: a run that returns has emitted, for every enum, the ordered value list
\* a run with the same options emits when the catalogue gives the same enums
\* in the other wire shape (flat strings for {key, value} pairs and pairs for
\* flat strings); the rest of the artifact is the same too.
C23_WireShapeIndependence ==
    pc = "done" =>
        \E r \in {generate(OtherWire(Schema), options)} :
            /\ r.thrown.kind = "none"
            /\ EnumBlocks(r.content) = EnumBlocks(fileContent)
            /\ r.content = fileContent

\* a run on the blog catalogue that excludes tenantId has emitted
\* UserScalarFieldEnum (flat in the catalogue) without tenantId, and Role
\* (pairs in the catalogue)
C23_Witness ==
    /\ pc = "done"
    /\ scenario = "blog"
    /\ "tenantId" \in ExcludeInputFields(options)
    /\ \E j, k \in 1..Len(fileContent) :
          /\ fileContent[j].kind = "enum" /\ fileContent[j].name = "UserScalarFieldEnum"
          /\ fileContent[k].kind = "enum" /\ fileContent[k].name = "Role"
          /\ "tenantId" \notin ToSet(fileContent[j].values)
          /\ Len(fileContent[j].values) > 0
          /\ fileContent[k].values = <<"ADMIN", "USER">>

-----------------------------------------------------------------------------
(* C24 *)

\* the names of the catalogue's output fields of a model, in catalogue order
CatalogueOutputNames(modelName) ==
    [j \in 1..Len(ModelOutputType(Schema, modelName).fields) |->
        ModelOutputType(Schema, modelName).fields[j].name]

\* the names of the fields of an emitted output shape, in emitted order
EmittedOutputNames(typeDef) ==
    [j \in 1..Len(typeDef.type.fields) |-> typeDef.type.fields[j].name]

\* where a name stands in a list of names
PositionIn(names, n) == CHOOSE j \in 1..Len(names) : names[j] = n

\* C24: the output shape built for a model has, once each and in catalogue
\* order, exactly the catalogue's output fields of the model whose name is
\* neither in excludeOutputFields nor starts with '_'.
C24_OutputShape ==
    \A i \in DOMAIN task :
        task[i].typeDef # NoTypeDef =>
            \E cat \in {CatalogueOutputNames(TheModels[i])} :
            \E out \in {EmittedOutputNames(task[i].typeDef)} :
                /\ task[i].typeDef.type.name = TheModels[i]
                /\ ToSet(out) = {n \in ToSet(cat) :
                                    /\ n \notin ToSet(options.excludeOutputFields)
                                    /\ n \notin UnderscoreNames}
                /\ \A j, k \in 1..Len(out) :
                      j < k => PositionIn(cat, out[j]) < PositionIn(cat, out[k])

\* the shape of a model whose catalogue entry has _count and an excluded field
\* was built, with at least two fields left
C24_Witness ==
    \E i \in DOMAIN task :
        /\ task[i].typeDef # NoTypeDef
        /\ "_count" \in ToSet(CatalogueOutputNames(TheModels[i]))
        /\ ToSet(options.excludeOutputFields) \cap ToSet(CatalogueOutputNames(TheModels[i])) # {}
        /\ Len(task[i].typeDef.type.fields) >= 2
        /\ Len(task[i].typeDef.type.fields) < Len(CatalogueOutputNames(TheModels[i])) - 1

-----------------------------------------------------------------------------
(* C25 *)

\* the aggregate output types Prisma's catalogue holds for a model
AggregateOutputTypes(modelName) ==
    {modelName \o "CountAggregateOutputType",
     modelName \o "MinAggregateOutputType",
     modelName \o "MaxAggregateOutputType"}

\* how many blocks of the artifact define the output type n
TypeBlocksNamed(content, n) ==
    Cardinality({j \in 1..Len(content) : content[j].kind = "type" /\ content[j].name = n})

\* C25: when generate returns, the shared artifact defines each aggregate
\* output type of every returned model exactly once.
C25_AggregateTypesOnce ==
    pc = "done" =>
        \A k \in 1..Len(output.models) :
            \A n \in AggregateOutputTypes(output.models[k].modelName) :
                TypeBlocksNamed(output.inputTypes, n) = 1

-----------------------------------------------------------------------------
(* C26 *)

\* the selections with every inline fragment replaced by what it selects
RECURSIVE Spliced(_)
Spliced(selections) ==
    IF Len(selections) = 0 THEN <<>>
    ELSE (IF Head(selections).kind = "InlineFragment"
          THEN Spliced(Head(selections).selections)
          ELSE <<[Head(selections) EXCEPT !.selections = Spliced(@)]>>)
         \o Spliced(Tail(selections))

\* the request with its fragments' fields selected directly
DirectlySelected(info) == [info EXCEPT !.selections = Spliced(@)]

\* C26: a field selected through an inline fragment, at the top level or in a
\* nested selection, is in the projection just as when it is selected
\* directly: the projection of a request is the projection of the request
\* with its fragments spliced in.
C26_FragmentsTranslated ==
    Translated =>
        prismaSelect = buildPrismaSelect(DirectlySelected(request.info), served.fields)

-----------------------------------------------------------------------------
(* C27 *)

\* the rules of the tie-break, in their order: list-typed and object-shaped,
\* list-typed, object-shaped, named Json, any
Rule(k, item) ==
    CASE k = 1 -> item.isList /\ item.location = "inputObjectTypes"
      [] k = 2 -> item.isList
      [] k = 3 -> item.location = "inputObjectTypes"
      [] k = 4 -> item.type = "Json"
      [] k = 5 -> TRUE

\* some candidate of the list satisfies rule k
Applicable(its, k) == \E i \in 1..Len(its) : Rule(k, its[i])

\* C27: for an argument with several candidates, getInputType returns the
\* first candidate in list order that satisfies the first rule some candidate
\* satisfies; for an argument with one candidate it returns that candidate.
C27_TieBreak ==
    (pc = "getInputType" /\ frames[1].at = "returned") =>
        \E its \in {frames[1].field.inputTypes} :
            /\ Len(its) = 1 => frames[1].result = its[1]
            /\ Len(its) > 1 =>
                  \E k \in 1..5 :
                      /\ Applicable(its, k)
                      /\ \A k2 \in 1..(k - 1) : ~Applicable(its, k2)
                      /\ \E i \in 1..Len(its) :
                            /\ Rule(k, its[i])
                            /\ \A j \in 1..(i - 1) : ~Rule(k, its[j])
                            /\ frames[1].result = its[i]

\* of <object, list of scalars, list of objects> the third was returned
C27_Witness ==
    /\ pc = "getInputType"
    /\ frames[1].at = "returned"
    /\ frames[1].field.inputTypes = <<Obj("T"), ScalarList("T"), ObjList("Json")>>
    /\ frames[1].result = ObjList("Json")

-----------------------------------------------------------------------------
(* C28 *)

\* a list with the elements at positions a and b exchanged
Swapped(l, a, b) ==
    [j \in 1..Len(l) |-> IF j = a THEN l[b] ELSE IF j = b THEN l[a] ELSE l[j]]

\* the list back to front, and the list begun at its position k
Reversed(l) == [j \in 1..Len(l) |-> l[Len(l) + 1 - j]]
Rotated(l, k) == [j \in 1..Len(l) |-> l[((j + k - 2) % Len(l)) + 1]]

\* other orders in which the document may list the models of this run: every
\* exchange of two models, every rotation, and the reverse of each of these
OtherOrders ==
    With({Swapped(Schema.models, a, b) : a, b \in 1..Len(Schema.models)}
            \cup {Rotated(Schema.models, k) : k \in 1..Len(Schema.models)},
         LAMBDA orders : orders \cup {Reversed(l) : l \in orders})

\* the run on the same document with its models listed in another order
ReorderedRun(order) == generate([Schema EXCEPT !.models = order], options)

\* C28: whatever order the per-model tasks complete in, a run that returns has
\* emitted the artifact, block by block and field by field, that the run emits
\* when the document lists its models in any other order.
C28_OrderIndependence ==
    pc = "done" =>
        \A order \in OtherOrders :
            \E r \in {ReorderedRun(order)} :
                /\ r.thrown.kind = "none"
                /\ r.content = fileContent

\* a run over several models, each of which adds a name the others do not,
\* has returned, and the document could list them in another order
C28_Witness ==
    /\ pc = "done"
    /\ Len(output.models) >= 2
    /\ \A i \in Included : \E n \in Contribution(i) :
          \A j \in Included \ {i} : n \notin Contribution(j)
    /\ \E order \in OtherOrders : order # Schema.models

-----------------------------------------------------------------------------
(* C29 *)

\* the names of the input and enum blocks of an artifact from position j on
NamesFrom(content, j) ==
    {content[k].name : k \in {m \in j..Len(content) : content[m].kind \in {"input", "enum"}}}

C29_State == writtenTypes \subseteq usedInputTypes

C29_Step ==
    /\ usedInputTypes \subseteq usedInputTypes'
    /\ writtenTypes \subseteq writtenTypes'
    /\ Len(fileContent) <= Len(fileContent')
    /\ \A j \in 1..Len(fileContent) :
          fileContent[j].kind \in {"input", "enum"} => fileContent'[j] = fileContent[j]
    /\ NamesFrom(fileContent', Len(fileContent) + 1) \cap writtenTypes = {}

\* C29: in every run usedInputTypes and writtenTypes never lose a name,
\* every written name is a used name, and every step leaves the blocks
\* already emitted in place and appends no block of a name already written.
C29_SetsOnlyGrow == []C29_State /\ [][C29_Step]_vars

\* a run in its third round or later: names were written in earlier rounds,
\* more names are used than written
C29_Witness ==
    /\ pc = "resolve"
    /\ index >= 2
    /\ writtenTypes # {}
    /\ writtenTypes # usedInputTypes
    /\ NamesFrom(fileContent, 1) = writtenTypes

-----------------------------------------------------------------------------
(* C30 *)

\* the selections with the arguments of every field replaced by as
RECURSIVE WithArguments(_, _)
WithArguments(selections, as) ==
    [j \in 1..Len(selections) |->
        [selections[j] EXCEPT !.arguments = IF selections[j].kind = "Field" THEN as ELSE @,
                              !.selections = WithArguments(@, as)]]

\* the names and the nesting of the selected fields, nothing else
RECURSIVE Shape(_)
Shape(selections) ==
    [j \in 1..Len(selections) |->
        [kind |-> selections[j].kind, name |-> selections[j].name,
         hasSelectionSet |-> selections[j].hasSelectionSet,
         selections |-> Shape(selections[j].selections)]]

\* requests that select the same names with the same nesting as this one:
\* without any argument, and with where and take on every field
SameShapeRequests ==
    {[request.info EXCEPT !.selections = WithArguments(@, as)] :
        as \in {<<>>, RelationArguments}}

\* C30: the projection of a request is the projection of every request that
\* selects the same names with the same nesting, whatever arguments the
\* fields carry.
C30_ArgumentsIgnored ==
    Translated =>
        \A other \in SameShapeRequests :
            /\ Shape(other.selections) = Shape(TopSelections)
            /\ buildPrismaSelect(other, served.fields) = prismaSelect

\* { id, posts(where: ..., take: ...) { title } } was translated to
\* { select: { id: true, posts: { select: { title: true } } } }
C30_Witness ==
    /\ Translated
    /\ \E i \in 1..Len(TopSelections) :
          /\ TopSelections[i].name = "posts"
          /\ TopSelections[i].arguments = RelationArguments
          /\ TopSelections[i].hasSelectionSet
    /\ \E other \in SameShapeRequests : other # request.info
    /\ DOMAIN Projection = {"id", "posts"}
    /\ Projection["posts"] = SelectObject(SetKey(<<>>, "title", TrueValue))

=============================================================================
